---- MODULE Spec2Model ----
(***************************************************************************)
(* A model of the local assistant core of yerel_asistan.py:                *)
(*   - DatabaseManager: the embedded relational store, one connection per  *)
(*     thread, every unit of work run under one process-wide RLock;        *)
(*   - SecurityManager: sanitize_command, validate_path,                   *)
(*     validate_input_length, sanitize_sql_like, mask_sensitive_data;      *)
(*   - CommandManager: powershell / opencode;                              *)
(*   - AIManager: sorgula and the two provider calls;                      *)
(*   - YerelAIAsistan: the command loop, kapat, and the JSON routes.       *)
(* The store is modelled at statement granularity: a unit of work is       *)
(* Acquire, Exec (one step per SQL statement), Commit or Rollback, Exit.   *)
(***************************************************************************)
EXTENDS Integers, Sequences, FiniteSets, TLC

VARIABLES
    db,         \* the committed content of the database file
    txn,        \* the open write transaction: its connection and working copy
    lockOwner,  \* DatabaseManager.lock: the owning thread, or NoThread
    lockCount,  \* DatabaseManager.lock: the re-entrant hold count
    conns,      \* threads whose thread-local connection is open
    pc,         \* per thread: where it is inside a store operation
    req,        \* per thread: the operation it runs and its arguments
    stmt,       \* per thread: index of the next SQL statement of the operation
    ret,        \* per thread: outcome of its last (or running) operation
    unit,       \* per thread: history of the running unit of work
    hist,       \* history: task ids handed out, rows removed
    faults,     \* storage faults injected so far
    clock,      \* datetime.datetime.now()
    guard,      \* a SecurityManager call: its input and what it returned
    sandbox     \* a CommandManager call: its input, the process run, the result

storeVars == <<db, txn, lockOwner, lockCount, conns, pc, req, stmt, ret, unit, hist, faults, clock>>
outside == <<guard, sandbox>>

----------------------------------------------------------------------------
(* Bounds of the model *)

NThreads == 2
MaxTasks == 2
MaxFaults == 1

Threads == 1..NThreads
NoThread == 0

----------------------------------------------------------------------------
(* SecurityManager. Text is a sequence of characters. *)

\* The backquote character, which a string of this language cannot hold.
Backquote == "backquote"

\* The characters sanitize_command looks for, in the order it looks.
DangerousChars ==
    <<";", "&", "|", Backquote, "$", "(", ")", "{", "}", "<", ">", "\n">>

\* What str.strip() removes at both ends (of the characters of the model).
Whitespace == {" ", "\t", "\n"}

Contains(text, c) == \E i \in 1..Len(text) : text[i] = c

SetMax(S) == IF S = {} THEN 0 ELSE CHOOSE m \in S : \A x \in S : x <= m

SetMin(S) == CHOOSE m \in S : \A x \in S : m <= x

\* str.strip()
Strip(text) ==
    LET solid == {i \in 1..Len(text) : text[i] \notin Whitespace}
    IN  IF solid = {} THEN <<>> ELSE SubSeq(text, SetMin(solid), SetMax(solid))

\* A sanitize_command that returns the command as it came.
sanitize_command_NoStrip(cmd) ==
    LET hits == {i \in 1..Len(DangerousChars) : Contains(cmd, DangerousChars[i])}
    IN  IF hits # {} THEN [raised |-> TRUE, char |-> DangerousChars[SetMin(hits)]]
        ELSE [raised |-> FALSE, val |-> cmd]

\* Raises ValueError naming the first listed character the command contains,
\* else returns cmd.strip().
sanitize_command(cmd) ==
    LET hits == {i \in 1..Len(DangerousChars) : Contains(cmd, DangerousChars[i])}
    IN  IF hits # {}
        THEN [raised |-> TRUE, char |-> DangerousChars[SetMin(hits)]]
        ELSE [raised |-> FALSE, val |-> Strip(cmd)]

\* A path is a sequence of names, each a sequence of characters, from the
\* root; the file system of the model has no symbolic links.
DotDot == <<".", ".">>
Dot == <<".">>

\* base_dir / path: an absolute path replaces base_dir.
JoinPath(base, path) == IF path.abs THEN path.parts ELSE base \o path.parts

\* Path.resolve(): "." is dropped, ".." drops the name before it, and the
\* parent of the root is the root.
RECURSIVE Resolve(_)
Resolve(parts) ==
    IF parts = <<>> THEN <<>>
    ELSE LET front == Resolve(SubSeq(parts, 1, Len(parts) - 1))
             last == parts[Len(parts)]
         IN  IF last = Dot THEN front
             ELSE IF last = DotDot
             THEN (IF front = <<>> THEN <<>> ELSE SubSeq(front, 1, Len(front) - 1))
             ELSE Append(front, last)

\* str(path) of an absolute path
RECURSIVE PathStr(_)
PathStr(parts) ==
    IF parts = <<>> THEN <<"/">>
    ELSE IF Len(parts) = 1 THEN <<"/">> \o parts[1]
    ELSE PathStr(SubSeq(parts, 1, Len(parts) - 1)) \o <<"/">> \o parts[Len(parts)]

\* str.startswith
StartsWith(text, prefix) ==
    Len(prefix) <= Len(text) /\ SubSeq(text, 1, Len(prefix)) = prefix

validate_path(path, base_dir) ==
    LET full_path == Resolve(JoinPath(base_dir, path))
        base_resolved == Resolve(base_dir)
    IN  StartsWith(PathStr(full_path), PathStr(base_resolved))

----------------------------------------------------------------------------
(* CommandManager *)

ps_timeout == 60
opencode_timeout == 300
PsOutputBudget == 2000
PsErrorBudget == 200
OcOutputBudget == 1500

Truncate(text, n) == IF Len(text) <= n THEN text ELSE SubSeq(text, 1, n)

\* What subprocess.run does: the process ends with a return code and its
\* output, or runs past the timeout and is killed, or cannot be started.
ProcTexts == {<<>>, <<"o">>, <<" ", "e">>}
ProcessOutcomes ==
    {[kind |-> "exit", rc |-> c, stdout |-> o, stderr |-> e] :
        c \in {0, 1}, o \in ProcTexts, e \in ProcTexts}
    \cup {[kind |-> "timeout"], [kind |-> "oserror"]}

\* A powershell that hands the raw command to the process.
ps_sanitized_Raw(cmd) == [raised |-> FALSE, val |-> cmd]

\* powershell: cmd = self.security.sanitize_command(cmd)
ps_sanitized(cmd) == sanitize_command(cmd)

\* opencode: cmd_clean = self.security.sanitize_command(komut)
oc_sanitized(komut) == sanitize_command(komut)

\* Path.home() / ".yerel_asistan"
data_dir == << <<"h">>, <<".", "y">> >>

\* A powershell without the except clause for TimeoutExpired: the timeout
\* falls to except Exception.
ps_result_NoTimeoutClause(o) ==
    CASE o.kind \in {"timeout", "oserror"} -> [kind |-> "error"]
      [] o.kind = "exit" /\ o.rc # 0 ->
            [kind |-> "exit_code", code |-> o.rc,
             text |-> Truncate(Strip(o.stderr), PsErrorBudget)]
      [] OTHER -> [kind |-> "output", text |-> Truncate(Strip(o.stdout), PsOutputBudget)]

\* The text powershell returns for an outcome of the process.
ps_result(o) ==
    CASE o.kind = "timeout" -> [kind |-> "timeout", limit |-> ps_timeout]
      [] o.kind = "oserror" -> [kind |-> "error"]
      [] o.kind = "exit" /\ o.rc # 0 ->
            [kind |-> "exit_code", code |-> o.rc,
             text |-> Truncate(Strip(o.stderr), PsErrorBudget)]
      [] OTHER -> [kind |-> "output", text |-> Truncate(Strip(o.stdout), PsOutputBudget)]

\* An opencode without its except clauses: TimeoutExpired and OSError reach
\* the caller.
oc_result_NoExcept(o) ==
    CASE o.kind \in {"timeout", "oserror"} -> [kind |-> "raised"]
      [] OTHER ->
            IF o.stdout \o o.stderr # <<>>
            THEN [kind |-> "output", text |-> Truncate(o.stdout \o o.stderr, OcOutputBudget)]
            ELSE [kind |-> "empty"]

\* The text opencode returns for an outcome of the process.
oc_result(o) ==
    CASE o.kind = "timeout" -> [kind |-> "timeout", limit |-> opencode_timeout]
      [] o.kind = "oserror" -> [kind |-> "error"]
      [] OTHER ->
            IF o.stdout \o o.stderr # <<>>
            THEN [kind |-> "output", text |-> Truncate(o.stdout \o o.stderr, OcOutputBudget)]
            ELSE [kind |-> "empty"]

SandboxIdle ==
    [pc |-> "idle", kind |-> "none", cmd |-> <<>>, clean |-> <<>>, spawned |-> <<>>,
     proc |-> [kind |-> "none"], out |-> [kind |-> "none"]]

\* The text a command of the given kind returns for an outcome of its process.
Result(kind, o) == IF kind = "powershell" THEN ps_result(o) ELSE oc_result(o)

\* powershell(cmd), up to subprocess.run
Powershell(cmd) ==
    /\ sandbox.pc = "idle"
    /\ LET s == ps_sanitized(cmd)
       IN  sandbox' =
             IF s.raised
             THEN [sandbox EXCEPT !.pc = "done", !.kind = "powershell", !.cmd = cmd,
                                  !.out = [kind |-> "security", char |-> s.char]]
             ELSE [sandbox EXCEPT !.pc = "run", !.kind = "powershell", !.cmd = cmd,
                                  !.clean = s.val]
    /\ UNCHANGED <<storeVars, guard>>

\* subprocess.run(["powershell", "-Command", cmd], timeout=ps_timeout) starts
\* the process, or fails to (OSError) and the text of the error is returned.
PowershellRun ==
    /\ sandbox.pc = "run"
    /\ sandbox.kind = "powershell"
    /\ \E started \in BOOLEAN :
         sandbox' = [sandbox EXCEPT
            !.pc = IF started THEN "wait" ELSE "done",
            !.spawned = Append(@, [argv |-> <<"powershell", "-Command", sandbox.clean>>,
                                   input |-> <<>>, timeout |-> ps_timeout,
                                   state |-> IF started THEN "running" ELSE "failed"]),
            !.proc = IF started THEN @ ELSE [kind |-> "oserror"],
            !.out = IF started THEN @ ELSE ps_result([kind |-> "oserror"])]
    /\ UNCHANGED <<storeVars, guard>>

\* opencode(komut, config), up to subprocess.run
Opencode(komut) ==
    /\ sandbox.pc = "idle"
    /\ \E made \in BOOLEAN :  \* data_dir.mkdir succeeds or raises OSError
       LET s == oc_sanitized(komut)
       IN  sandbox' =
             IF s.raised
             THEN [sandbox EXCEPT !.pc = "done", !.kind = "opencode", !.cmd = komut,
                                  !.out = [kind |-> "security", char |-> s.char]]
             ELSE IF ~made
             THEN [sandbox EXCEPT !.pc = "done", !.kind = "opencode", !.cmd = komut,
                                  !.out = [kind |-> "error"]]
             ELSE IF ~validate_path([abs |-> FALSE, parts |-> << <<"o", "c">> >>], data_dir)
             THEN [sandbox EXCEPT !.pc = "done", !.kind = "opencode", !.cmd = komut,
                                  !.out = [kind |-> "bad_path"]]
             ELSE [sandbox EXCEPT !.pc = "run", !.kind = "opencode", !.cmd = komut,
                                  !.clean = s.val]
    /\ UNCHANGED <<storeVars, guard>>

\* subprocess.run([config.opencode_cli_path, "--yes"], input=cmd_clean + "\n",
\* timeout=config.opencode_timeout) starts the process, or fails to.
OpencodeRun ==
    /\ sandbox.pc = "run"
    /\ sandbox.kind = "opencode"
    /\ \E started \in BOOLEAN :
         sandbox' = [sandbox EXCEPT
            !.pc = IF started THEN "wait" ELSE "done",
            !.spawned = Append(@, [argv |-> <<"opencode", "--yes">>,
                                   input |-> sandbox.clean \o <<"\n">>,
                                   timeout |-> opencode_timeout,
                                   state |-> IF started THEN "running" ELSE "failed"]),
            !.proc = IF started THEN @ ELSE [kind |-> "oserror"],
            !.out = IF started THEN @ ELSE oc_result([kind |-> "oserror"])]
    /\ UNCHANGED <<storeVars, guard>>

\* The process ends within the timeout; subprocess.run returns its return
\* code and output, and the operation returns its text.
ProcessExit ==
    /\ sandbox.pc = "wait"
    /\ \E o \in {x \in ProcessOutcomes : x.kind = "exit"} :
         sandbox' = [sandbox EXCEPT
            !.pc = "done",
            !.spawned[Len(sandbox.spawned)].state = "exited",
            !.proc = o,
            !.out = Result(sandbox.kind, o)]
    /\ UNCHANGED <<storeVars, guard>>

\* The timeout passes with the process still running: subprocess.run kills
\* it, waits for it and raises TimeoutExpired; the operation returns its text.
ProcessTimeout ==
    /\ sandbox.pc = "wait"
    /\ sandbox' = [sandbox EXCEPT
            !.pc = "done",
            !.spawned[Len(sandbox.spawned)].state = "killed",
            !.proc = [kind |-> "timeout"],
            !.out = Result(sandbox.kind, [kind |-> "timeout"])]
    /\ UNCHANGED <<storeVars, guard>>

\* The caller has the text; the next command may come.
SandboxReturn ==
    /\ sandbox.pc = "done"
    /\ sandbox' = SandboxIdle
    /\ UNCHANGED <<storeVars, guard>>

----------------------------------------------------------------------------
(* The schema of _init_database *)

\* CHECK(oncelik IN (...)), CHECK(durum IN (...)), CHECK(rol IN (...)); the
\* Turkish letters of the source are written in ASCII here.
Oncelikler == {"dusuk", "orta", "yuksek", "acil"}
Durumlar == {"bekliyor", "devam", "tamamlandi", "iptal"}
Roller == {"user", "assistant", "system"}

EmptyDB ==
    [ kisa_sureli |-> {}, uzun_sureli |-> {}, beyani |-> {}, episodik |-> {},
      oturumlar |-> {}, mesajlar |-> {}, gorevler |-> {}, ogrenilen |-> {},
      seq |-> [mesajlar |-> 0, gorevler |-> 0, ogrenilen |-> 0] ]

\* INTEGER PRIMARY KEY AUTOINCREMENT: one more than the largest rowid the
\* table has ever held (sqlite_sequence), never a reused one.
NextRowId(rows, seqno) ==
    LET top == SetMax({r.id : r \in rows})
    IN  (IF seqno > top THEN seqno ELSE top) + 1

\* The orderings of the rows S an ORDER BY K DESC may produce: rows with equal
\* keys come in an order the engine chooses.
SortedDesc(S, col) ==
    { s \in [1..Cardinality(S) -> S] :
        /\ \A i, j \in 1..Cardinality(S) : i # j => s[i] # s[j]
        /\ \A i, j \in 1..Cardinality(S) : i < j => s[i][col] >= s[j][col] }

Take(s, n) == IF Len(s) <= n THEN s ELSE SubSeq(s, 1, n)

\* The outcome of one SQL statement on the view d of the database: whether it
\* succeeded, the view after it, and what the operation reads from the cursor.
Done(d, v) == [ok |-> TRUE, d |-> d, val |-> v]
Failed(d, e) == [ok |-> FALSE, d |-> d, val |-> e]

----------------------------------------------------------------------------
(* Tasks *)

gorev_ekle(d, baslik, aciklama, oncelik, now) ==
    IF oncelik \notin Oncelikler
    THEN {Failed(d, "IntegrityError")}
    ELSE LET id == NextRowId(d.gorevler, d.seq.gorevler)
             row == [id |-> id, baslik |-> baslik, aciklama |-> aciklama,
                     oncelik |-> oncelik, durum |-> "bekliyor",
                     olusturma |-> now, tamamlanma |-> <<>>]
         IN  {Done([d EXCEPT !.gorevler = @ \cup {row}, !.seq.gorevler = id], id)}

gorev_listele(d, durum) ==
    LET rows == IF durum # "" THEN {r \in d.gorevler : r.durum = durum}
                ELSE d.gorevler
    IN  {Done(d, s) : s \in SortedDesc(rows, "olusturma")}

\* A gorev_tamamla that sets the status and leaves tamamlanma as it was.
gorev_tamamla_StatusOnly(d, id, now) ==
    {Done([d EXCEPT !.gorevler =
                {IF r.id = id THEN [r EXCEPT !.durum = "tamamlandi"] ELSE r : r \in @}],
          Cardinality({r \in d.gorevler : r.id = id}))}

gorev_tamamla(d, id, now) ==
    LET upd(r) == IF r.id = id
                  THEN [r EXCEPT !.durum = "tamamlandi", !.tamamlanma = <<now>>]
                  ELSE r
    IN  {Done([d EXCEPT !.gorevler = {upd(r) : r \in @}],
              Cardinality({r \in d.gorevler : r.id = id}))}

gorev_sil(d, id) ==
    {Done([d EXCEPT !.gorevler = {r \in @ : r.id # id}],
          Cardinality({r \in d.gorevler : r.id = id}))}

\* istatistik: eight COUNT(*) statements, executed one after the other.
StatKeys ==
    <<"kisa", "uzun", "beyani", "episodik", "oturum", "gorev", "gorev_bekliyor", "ogrenilen">>

StatCount(d, key) ==
    CASE key = "kisa" -> Cardinality(d.kisa_sureli)
      [] key = "uzun" -> Cardinality(d.uzun_sureli)
      [] key = "beyani" -> Cardinality(d.beyani)
      [] key = "episodik" -> Cardinality(d.episodik)
      [] key = "oturum" -> Cardinality(d.oturumlar)
      [] key = "gorev" -> Cardinality(d.gorevler)
      [] key = "gorev_bekliyor" -> Cardinality({r \in d.gorevler : r.durum = "bekliyor"})
      [] key = "ogrenilen" -> Cardinality(d.ogrenilen)

\* The dictionary istatistik returns when all eight counts see the view d.
istatistik(d) == [k \in {StatKeys[i] : i \in 1..Len(StatKeys)} |-> StatCount(d, k)]

----------------------------------------------------------------------------
(* Sessions and their messages *)

\* sqlite3.connect(...) is followed by no "PRAGMA foreign_keys = ON": the
\* engine keeps its default and does not enforce FOREIGN KEY clauses.
ForeignKeysOn == FALSE

Ids(rows) == {r.id : r \in rows}

\* id is the first eight characters of a random uuid4; PRIMARY KEY rejects
\* one that is already there.
oturum_olustur(d, id, now) ==
    IF id \in Ids(d.oturumlar)
    THEN {Failed(d, "IntegrityError")}
    ELSE LET row == [id |-> id, isim |-> <<"oturum-", id>>, proje_yolu |-> "cwd",
                     olusturma |-> now, mod |-> "build"]
         IN  {Done([d EXCEPT !.oturumlar = @ \cup {row}], [id |-> id, isim |-> row.isim])}

oturum_getir(d, id) ==
    {Done(d, {r \in d.oturumlar : r.id = id})}

\* An oturum_mesaj_ekle that leaves the role to the table.
oturum_mesaj_ekle_check_None(rol) == TRUE

\* if rol not in ['user', 'assistant', 'system']: raise ValueError
oturum_mesaj_ekle_check(rol) == rol \in {"user", "assistant", "system"}

oturum_mesaj_ekle(d, oid, rol, icerik, now) ==
    IF \/ rol \notin Roller
       \/ ForeignKeysOn /\ oid \notin Ids(d.oturumlar)
    THEN {Failed(d, "IntegrityError")}
    ELSE LET id == NextRowId(d.mesajlar, d.seq.mesajlar)
             row == [id |-> id, oturum_id |-> oid, rol |-> rol, icerik |-> icerik,
                     zaman |-> now]
         IN  {Done([d EXCEPT !.mesajlar = @ \cup {row}, !.seq.mesajlar = id], id)}

oturum_mesajlari(d, oid, limit) ==
    {Done(d, Take(s, limit)) :
        s \in SortedDesc({r \in d.mesajlar : r.oturum_id = oid}, "zaman")}

\* DELETE FROM oturumlar WHERE id = ?, with the ON DELETE CASCADE of mesajlar
\* acting when the connection enforces foreign keys.
oturum_sil(d, id) ==
    LET kept == {r \in d.oturumlar : r.id # id}
        msgs == IF ForeignKeysOn /\ kept # d.oturumlar
                THEN {r \in d.mesajlar : r.oturum_id # id}
                ELSE d.mesajlar
    IN  {Done([d EXCEPT !.oturumlar = kept, !.mesajlar = msgs],
              Cardinality(d.oturumlar) - Cardinality(kept))}

----------------------------------------------------------------------------
(* Short-term memory *)

TTL_HOURS == 24

\* datetime.isoformat(): the fields of the time in fixed width, padded with
\* zeros. The clock counts hours; its text is two digits.
isoformat(t) == <<t \div 10, t % 10>>

\* TEXT columns compare character by character, a proper prefix first.
TextLess(a, b) ==
    \E k \in 1..(Len(a) + 1) :
        /\ k <= Len(b)
        /\ \A i \in 1..(k - 1) : a[i] = b[i]
        /\ k = Len(a) + 1 \/ a[k] < b[k]

\* ORDER BY K DESC on a TEXT column.
SortedDescText(S, col) ==
    { s \in [1..Cardinality(S) -> S] :
        /\ \A i, j \in 1..Cardinality(S) : i # j => s[i] # s[j]
        /\ \A i, j \in 1..Cardinality(S) : i < j => ~TextLess(s[i][col], s[j][col]) }

\* An entry that expires when it is written.
ExpiresAt_NoTTL(t) == t

\* datetime.datetime.now() + datetime.timedelta(hours=24)
ExpiresAt(t) == t + TTL_HOURS

\* now is the clock read for son_erisim and olusturma, later the clock read
\* again for bitis; id is a random uuid4, which PRIMARY KEY rejects if taken.
kisa_ekle(d, id, icerik, now, later) ==
    IF id \in Ids(d.kisa_sureli)
    THEN {Failed(d, "IntegrityError")}
    ELSE LET row == [id |-> id, icerik |-> icerik, olusturma |-> isoformat(now),
                     bitis |-> isoformat(ExpiresAt(later))]
         IN  {Done([d EXCEPT !.kisa_sureli = @ \cup {row}], id)}

\* A kisa_getir that leaves out the WHERE clause.
kisa_getir_Unfiltered(d, limit, now) ==
    {Done(d, Take(s, limit)) : s \in SortedDescText(d.kisa_sureli, "olusturma")}

\* SELECT * FROM kisa_sureli WHERE bitis > now ORDER BY olusturma DESC LIMIT limit
kisa_getir(d, limit, now) ==
    {Done(d, Take(s, limit)) :
        s \in SortedDescText({r \in d.kisa_sureli : TextLess(isoformat(now), r.bitis)},
                             "olusturma")}

\* A prune that deletes every short-term row.
kisa_temizle_All(d, now) ==
    {Done([d EXCEPT !.kisa_sureli = {}], Cardinality(d.kisa_sureli))}

kisa_temizle(d, now) ==
    LET gone == {r \in d.kisa_sureli : TextLess(r.bitis, isoformat(now))}
    IN  {Done([d EXCEPT !.kisa_sureli = @ \ gone], Cardinality(gone))}

----------------------------------------------------------------------------
(* Long-term memory *)

\* A uzun_ekle that leaves the importance to the table.
uzun_ekle_check_None(onem) == TRUE

\* if not 1 <= onem <= 10: raise ValueError
uzun_ekle_check(onem) == 1 <= onem /\ onem <= 10

\* A text is the sequence of its characters. OUml is the one letter outside
\* ASCII the texts of the model use (U+00F6).
OUml == "o-umlaut"
Quote == "\""
Backslash == "\\"

\* json.dumps on one character of a string (ensure_ascii is on).
JsonChar(c) ==
    CASE c = Quote -> <<Backslash, Quote>>
      [] c = Backslash -> <<Backslash, Backslash>>
      [] c = OUml -> <<Backslash, "u", "0", "0", "f", "6">>
      [] OTHER -> <<c>>

RECURSIVE JsonString(_)
\* json.dumps on the characters of a string, without the enclosing quotes.
JsonString(text) ==
    IF text = <<>> THEN <<>> ELSE JsonChar(text[1]) \o JsonString(Tail(text))

RECURSIVE JsonItems(_)
JsonItems(etiketler) ==
    IF etiketler = <<>> THEN <<>>
    ELSE <<Quote>> \o JsonString(etiketler[1]) \o <<Quote>>
         \o (IF Len(etiketler) > 1 THEN <<",", " ">> ELSE <<>>)
         \o JsonItems(Tail(etiketler))

\* json.dumps(etiketler or []) for a list of strings.
json_dumps(etiketler) == <<"[">> \o JsonItems(etiketler) \o <<"]">>

\* SQLite folds the ASCII letters for LIKE; A, O and S are the upper-case
\* letters of the model's texts.
LikeFold(c) ==
    CASE c = "A" -> "a" [] c = "O" -> "o" [] c = "S" -> "s" [] OTHER -> c

RECURSIVE Like(_, _, _)
\* text LIKE pattern, with ESCAPE '\' when esc is TRUE: % is any run of
\* characters, _ any one character, the character after the escape is itself.
Like(pattern, text, esc) ==
    IF pattern = <<>> THEN text = <<>>
    ELSE IF esc /\ pattern[1] = Backslash
    THEN /\ Len(pattern) >= 2
         /\ text # <<>>
         /\ LikeFold(pattern[2]) = LikeFold(text[1])
         /\ Like(SubSeq(pattern, 3, Len(pattern)), Tail(text), esc)
    ELSE IF pattern[1] = "%"
    THEN \E k \in 0..Len(text) : Like(Tail(pattern), SubSeq(text, k + 1, Len(text)), esc)
    ELSE IF pattern[1] = "_"
    THEN text # <<>> /\ Like(Tail(pattern), Tail(text), esc)
    ELSE /\ text # <<>>
         /\ LikeFold(pattern[1]) = LikeFold(text[1])
         /\ Like(Tail(pattern), Tail(text), esc)

RECURSIVE Replace(_, _, _)
\* str.replace(c, by) for a one-character c.
Replace(text, c, by) ==
    IF text = <<>> THEN <<>>
    ELSE (IF text[1] = c THEN by ELSE <<text[1]>>) \o Replace(Tail(text), c, by)

\* SecurityManager.sanitize_sql_like
sanitize_sql_like(sorgu) ==
    IF sorgu = <<>> THEN <<>>
    ELSE LET s1 == Replace(sorgu, Backslash, <<Backslash, Backslash>>)
             s2 == Replace(s1, "%", <<Backslash, "%">>)
             s3 == Replace(s2, "_", <<Backslash, "_">>)
         IN  <<"%">> \o s3 \o <<"%">>

\* id is a random uuid4; the table has CHECK(onem >= 1 AND onem <= 10).
uzun_ekle(d, id, icerik, etiketler, onem, now) ==
    IF id \in Ids(d.uzun_sureli) \/ ~(onem >= 1 /\ onem <= 10)
    THEN {Failed(d, "IntegrityError")}
    ELSE LET row == [id |-> id, icerik |-> icerik, etiketler |-> json_dumps(etiketler),
                     onem |-> onem, olusturma |-> isoformat(now)]
         IN  {Done([d EXCEPT !.uzun_sureli = @ \cup {row}], id)}

\* ORDER BY onem DESC, and then olusturma DESC when tie is TRUE; rows the
\* ordering does not tell apart come in any order.
ByImportance(S, tie) ==
    { s \in [1..Cardinality(S) -> S] :
        /\ \A i, j \in 1..Cardinality(S) : i # j => s[i] # s[j]
        /\ \A i, j \in 1..Cardinality(S) : i < j =>
              \/ s[i].onem > s[j].onem
              \/ /\ s[i].onem = s[j].onem
                 /\ tie => ~TextLess(s[i].olusturma, s[j].olusturma) }

SearchLimit == 50

\* DatabaseManager.uzun_ara
uzun_ara(d, sorgu) ==
    LET safe_query == sanitize_sql_like(sorgu)
        rows == {r \in d.uzun_sureli :
                    Like(safe_query, r.icerik, TRUE) \/ Like(safe_query, r.etiketler, TRUE)}
    IN  {Done(d, Take(s, SearchLimit)) : s \in ByImportance(rows, TRUE)}

\* A pattern that leaves out the quotes around the tag.
TagPattern_Plain(tag) == <<"%">> \o tag \o <<"%">>

\* f'%"{tag}"%'
TagPattern(tag) == <<"%", Quote>> \o tag \o <<Quote, "%">>

RECURSIVE TagRows(_, _, _)
\* The rows uzun_getir yields for a list of tags: one query per tag, in turn.
TagRows(d, etiketler, limit) ==
    IF etiketler = <<>> THEN {<<>>}
    ELSE LET rows == {r \in d.uzun_sureli : Like(TagPattern(etiketler[1]), r.etiketler, FALSE)}
         IN  {Take(s, limit) \o rest :
                 s \in ByImportance(rows, FALSE), rest \in TagRows(d, Tail(etiketler), limit)}

\* DatabaseManager.uzun_getir: the rows the generator yields, in order.
uzun_getir(d, etiketler, limit) ==
    IF etiketler # <<>>
    THEN {Done(d, s) : s \in TagRows(d, etiketler, limit)}
    ELSE {Done(d, Take(s, limit)) : s \in ByImportance(d.uzun_sureli, TRUE)}

----------------------------------------------------------------------------
(* Learned answers *)

\* str.lower() on the letters the questions of the model are written in.
LowerChar(c) == CASE c = "Q" -> "q" [] c = "R" -> "r" [] OTHER -> c

Lower(text) == [i \in 1..Len(text) |-> LowerChar(text[i])]

\* An ogren that stores the question as it came.
ogren_AsGiven(d, soru, yanit, now) ==
    LET kept == {r \in d.ogrenilen : r.soru # soru}
        id == NextRowId(d.ogrenilen, d.seq.ogrenilen)
        row == [id |-> id, soru |-> soru, yanit |-> yanit, olusturma |-> isoformat(now)]
    IN  {Done([d EXCEPT !.ogrenilen = kept \cup {row}, !.seq.ogrenilen = id], TRUE)}

\* INSERT OR REPLACE INTO ogrenilen (soru, yanit, olusturma) with
\* soru.lower().strip(): the row the UNIQUE(soru) constraint conflicts with is
\* deleted and the new one is inserted under a new AUTOINCREMENT id.
ogren(d, soru, yanit, now) ==
    LET key == Strip(Lower(soru))
        kept == {r \in d.ogrenilen : r.soru # key}
        id == NextRowId(d.ogrenilen, d.seq.ogrenilen)
        row == [id |-> id, soru |-> key, yanit |-> yanit, olusturma |-> isoformat(now)]
    IN  {Done([d EXCEPT !.ogrenilen = kept \cup {row}, !.seq.ogrenilen = id], TRUE)}

----------------------------------------------------------------------------
(* The unit of work: get_cursor *)

NoTxn == [owner |-> NoThread, work |-> EmptyDB]
NoUnit == [base |-> EmptyDB, wrote |-> EmptyDB, seen |-> {}, cursor |-> "none", held |-> 0]
NoReq == [op |-> "none"]
NoRet == [status |-> "none", val |-> <<>>]

\* What thread t's connection reads: its own uncommitted writes, else the
\* committed database.
View(t) == IF txn.owner = t THEN txn.work ELSE db

WriteOps ==
    {"gorev_ekle", "gorev_tamamla", "gorev_sil",
     "oturum_olustur", "oturum_mesaj_ekle", "oturum_sil",
     "kisa_ekle", "kisa_temizle", "uzun_ekle", "ogren"}

\* The outcomes of the statement of request r on the view d.
Statement(r, d) ==
    CASE r.op = "gorev_ekle" -> gorev_ekle(d, r.baslik, r.aciklama, r.oncelik, r.now)
      [] r.op = "gorev_listele" -> gorev_listele(d, r.durum)
      [] r.op = "gorev_tamamla" -> gorev_tamamla(d, r.id, r.now)
      [] r.op = "gorev_sil" -> gorev_sil(d, r.id)
      [] r.op = "oturum_olustur" -> oturum_olustur(d, r.id, r.now)
      [] r.op = "oturum_getir" -> oturum_getir(d, r.id)
      [] r.op = "oturum_mesaj_ekle" -> oturum_mesaj_ekle(d, r.oid, r.rol, r.icerik, r.now)
      [] r.op = "oturum_mesajlari" -> oturum_mesajlari(d, r.oid, r.limit)
      [] r.op = "oturum_sil" -> oturum_sil(d, r.id)
      [] r.op = "kisa_ekle" -> kisa_ekle(d, r.id, r.icerik, r.now, r.later)
      [] r.op = "kisa_getir" -> kisa_getir(d, r.limit, r.now)
      [] r.op = "kisa_temizle" -> kisa_temizle(d, r.now)
      [] r.op = "uzun_ekle" -> uzun_ekle(d, r.id, r.icerik, r.etiketler, r.onem, r.now)
      [] r.op = "uzun_ara" -> uzun_ara(d, r.sorgu)
      [] r.op = "uzun_getir" -> uzun_getir(d, r.etiketler, r.limit)
      [] r.op = "ogren" -> ogren(d, r.soru, r.yanit, r.now)

\* Checks an operation makes in Python before it asks for the cursor.
Precheck(r) ==
    CASE r.op = "oturum_mesaj_ekle" -> oturum_mesaj_ekle_check(r.rol)
      [] r.op = "uzun_ekle" -> uzun_ekle_check(r.onem)
      [] OTHER -> TRUE

\* A get_cursor that does not take the lock.
LockAvailable_NoLock(t) == TRUE

\* threading.RLock: free, or already held by the asking thread.
LockAvailable(t) == lockOwner \in {NoThread, t}

\* A get_cursor that forgets conn.commit().
Committed_Omitted(t) == [db |-> db, txn |-> txn]

\* conn.commit(): the connection's open transaction becomes the database.
Committed(t) ==
    IF txn.owner = t THEN [db |-> txn.work, txn |-> NoTxn] ELSE [db |-> db, txn |-> txn]

\* A get_cursor that re-raises without conn.rollback().
RolledBack_Omitted(t) == txn

\* conn.rollback(): the connection's open transaction is dropped.
RolledBack(t) == IF txn.owner = t THEN NoTxn ELSE txn

InUnit(t) == pc[t] \in {"exec", "commit", "rollback"}

\* A store operation is entered: it reads the clock and runs its Python
\* checks, then asks for the cursor. Its arguments are inputs nothing else can
\* read before its statement runs; the model draws them here only when a check
\* rejects them, and otherwise when the lock is granted.
Call(t, R) ==
    /\ pc[t] = "idle"
    /\ UNCHANGED outside
    /\ \/ /\ pc' = [pc EXCEPT ![t] = "acquire"]
          /\ req' = [req EXCEPT ![t] = [op |-> "call", now |-> clock]]
          /\ ret' = [ret EXCEPT ![t] = [status |-> "running", val |-> <<>>]]
       \/ \E r \in R :
          /\ ~Precheck(r)
          /\ pc' = [pc EXCEPT ![t] = "raised"]
          /\ req' = [req EXCEPT ![t] = r @@ [now |-> clock]]
          /\ ret' = [ret EXCEPT ![t] = [status |-> "error", val |-> "ValueError"]]
    /\ UNCHANGED <<db, txn, lockOwner, lockCount, conns, stmt, unit, hist, faults, clock>>

\* The ValueError of a failed check reaches the caller.
Raise(t) ==
    /\ pc[t] = "raised"
    /\ UNCHANGED outside
    /\ pc' = [pc EXCEPT ![t] = "idle"]
    /\ req' = [req EXCEPT ![t] = NoReq]
    /\ ret' = [ret EXCEPT ![t] = NoRet]
    /\ UNCHANGED <<db, txn, lockOwner, lockCount, conns, stmt, unit, hist, faults, clock>>

\* with self.lock: conn = self._get_connection(); cursor = conn.cursor()
Acquire(t, R) ==
    /\ pc[t] = "acquire"
    /\ UNCHANGED outside
    /\ LockAvailable(t)
    /\ lockOwner' = t
    /\ lockCount' = lockCount + 1
    /\ conns' = conns \cup {t}
    /\ pc' = [pc EXCEPT ![t] = "exec"]
    /\ \E r \in R : Precheck(r) /\ req' = [req EXCEPT ![t] = r @@ [now |-> req[t].now]]
    /\ unit' = [unit EXCEPT ![t] = [base |-> db, wrote |-> db, seen |-> {db},
                                     cursor |-> "open", held |-> lockCount]]
    /\ UNCHANGED <<db, txn, stmt, ret, hist, faults, clock>>

\* yield cursor: the body of the with block, one SQL statement per step.
Exec(t) ==
    /\ pc[t] = "exec"
    /\ UNCHANGED outside
    /\ IF req[t].op = "istatistik"
       THEN LET key == StatKeys[stmt[t]]
            IN  /\ ret' = [ret EXCEPT ![t].val = (key :> StatCount(View(t), key)) @@ @]
                /\ stmt' = [stmt EXCEPT ![t] = @ + 1]
                /\ pc' = [pc EXCEPT ![t] = IF stmt[t] = Len(StatKeys) THEN "commit" ELSE "exec"]
                /\ UNCHANGED <<txn, unit>>
       ELSE IF req[t].op \in WriteOps /\ txn.owner \notin {NoThread, t}
       THEN \* another connection holds the write transaction: database is locked
            /\ ret' = [ret EXCEPT ![t].val = "OperationalError"]
            /\ pc' = [pc EXCEPT ![t] = "rollback"]
            /\ UNCHANGED <<txn, unit, stmt>>
       ELSE \E o \in Statement(req[t], View(t)) :
            /\ ret' = [ret EXCEPT ![t].val = o.val]
            /\ pc' = [pc EXCEPT ![t] =
                        IF ~o.ok THEN "rollback"
                        ELSE IF req[t].op = "uzun_getir" /\ o.val # <<>> THEN "yield"
                        ELSE "commit"]
            /\ txn' = IF req[t].op \in WriteOps THEN [owner |-> t, work |-> o.d] ELSE txn
            /\ unit' = [unit EXCEPT ![t].wrote = o.d]
            /\ UNCHANGED stmt
    /\ UNCHANGED <<db, lockOwner, lockCount, conns, req, hist, faults, clock>>

\* conn.commit() succeeds.
CommitOk(t) ==
    /\ pc[t] = "commit"
    /\ UNCHANGED outside
    /\ db' = Committed(t).db
    /\ txn' = Committed(t).txn
    /\ pc' = [pc EXCEPT ![t] = "exit"]
    /\ ret' = [ret EXCEPT ![t].status = "ok"]
    /\ unit' = [u \in Threads |->
                  IF InUnit(u) THEN [unit[u] EXCEPT !.seen = @ \cup {Committed(t).db}]
                  ELSE unit[u]]
    /\ UNCHANGED <<lockOwner, lockCount, conns, req, stmt, hist, faults, clock>>

\* conn.commit() raises (the file is busy or cannot be written).
CommitFault(t) ==
    /\ pc[t] = "commit"
    /\ UNCHANGED outside
    /\ txn.owner = t
    /\ faults < MaxFaults
    /\ faults' = faults + 1
    /\ pc' = [pc EXCEPT ![t] = "rollback"]
    /\ ret' = [ret EXCEPT ![t].val = "OperationalError"]
    /\ UNCHANGED <<db, txn, lockOwner, lockCount, conns, req, stmt, unit, hist, clock>>

\* except Exception: conn.rollback(); log; raise
Rollback(t) ==
    /\ pc[t] = "rollback"
    /\ UNCHANGED outside
    /\ txn' = RolledBack(t)
    /\ pc' = [pc EXCEPT ![t] = "exit"]
    /\ ret' = [ret EXCEPT ![t].status = "error"]
    /\ UNCHANGED <<db, lockOwner, lockCount, conns, req, stmt, unit, hist, faults, clock>>

\* The generator of uzun_getir is resumed by its consumer: it yields the next
\* row, or the rows are used up and the body of the with block ends.
Resume(t) ==
    /\ pc[t] = "yield"
    /\ UNCHANGED outside
    /\ IF stmt[t] < Len(ret[t].val)
       THEN stmt' = [stmt EXCEPT ![t] = @ + 1] /\ UNCHANGED pc
       ELSE pc' = [pc EXCEPT ![t] = "commit"] /\ UNCHANGED stmt
    /\ UNCHANGED <<db, txn, lockOwner, lockCount, conns, req, ret, unit, hist, faults, clock>>

\* The consumer closes (or drops) the generator of uzun_getir before the rows
\* are used up: GeneratorExit is raised at the yield; it is no Exception, so
\* neither commit nor rollback runs, only the finally clause.
GeneratorClose(t) ==
    /\ pc[t] = "yield"
    /\ UNCHANGED outside
    /\ pc' = [pc EXCEPT ![t] = "exit"]
    /\ ret' = [ret EXCEPT ![t].status = "closed"]
    /\ UNCHANGED <<db, txn, lockOwner, lockCount, conns, req, stmt, unit, hist, faults, clock>>

\* A with block that leaves the lock as it is.
Released_Kept(t) == [owner |-> lockOwner, count |-> lockCount]

\* The end of "with self.lock": one hold less; the lock is free at zero.
Released(t) ==
    [owner |-> IF lockCount = 1 THEN NoThread ELSE lockOwner, count |-> lockCount - 1]

\* finally: cursor.close(); the with block releases the lock; the operation
\* returns to its caller (or the exception reaches it).
Exit(t) ==
    /\ pc[t] = "exit"
    /\ UNCHANGED outside
    /\ lockCount' = Released(t).count
    /\ lockOwner' = Released(t).owner
    /\ pc' = [pc EXCEPT ![t] = "idle"]
    /\ unit' = [unit EXCEPT ![t] = [NoUnit EXCEPT !.cursor = "closed"]]
    /\ hist' = IF ret[t].status = "ok" /\ req[t].op = "gorev_ekle"
               THEN [hist EXCEPT !.adds = @ + 1, !.ids = @ \cup {ret[t].val}]
               ELSE IF ret[t].status = "ok" /\ req[t].op = "gorev_sil"
               THEN [hist EXCEPT !.dels = @ + ret[t].val]
               ELSE hist
    /\ req' = [req EXCEPT ![t] = NoReq]
    /\ ret' = [ret EXCEPT ![t] = NoRet]
    /\ stmt' = [stmt EXCEPT ![t] = 1]
    /\ UNCHANGED <<db, txn, conns, faults, clock>>

StoreInit ==
    /\ db = EmptyDB
    /\ txn = NoTxn
    /\ lockOwner = NoThread
    /\ lockCount = 0
    /\ conns = {}
    /\ pc = [t \in Threads |-> "idle"]
    /\ req = [t \in Threads |-> NoReq]
    /\ stmt = [t \in Threads |-> 1]
    /\ ret = [t \in Threads |-> NoRet]
    /\ unit = [t \in Threads |-> NoUnit]
    /\ hist = [adds |-> 0, ids |-> {}, dels |-> 0]
    /\ faults = 0
    /\ clock = 0

Off == [pc |-> "off"]

\* A fresh database, no SecurityManager or CommandManager call in progress.
StoreOnlyInit == StoreInit /\ guard = Off /\ sandbox = Off

----------------------------------------------------------------------------
(* The task store under concurrent callers *)

Basliklar == {"a"}
OncelikInputs == {"orta", "acil", "bogus"}

\* A caller settles the arguments of a call while it enters the operation,
\* before its statement runs.
Chosen(t, S) == IF pc[t] \in {"idle", "acquire"} THEN S ELSE {}

\* The requests a thread may make of the task store; AUTOINCREMENT values are
\* handed out up to MaxTasks.
TaskRequests(t) ==
    {[op |-> "gorev_ekle", baslik |-> b, aciklama |-> "", oncelik |-> p] :
        b \in (IF View(t).seq.gorevler < MaxTasks THEN Basliklar ELSE {}),
        p \in OncelikInputs}
    \cup {[op |-> "gorev_tamamla", id |-> i] : i \in Chosen(t, 1..MaxTasks)}
    \cup {[op |-> "gorev_sil", id |-> i] : i \in Chosen(t, 1..MaxTasks)}
    \cup {[op |-> "gorev_listele", durum |-> x] : x \in Chosen(t, {"", "bekliyor"})}
    \cup {[op |-> "istatistik"]}

vars == <<storeVars, outside>>

TaskNext ==
    \E t \in Threads :
        \/ Call(t, TaskRequests(t))
        \/ Acquire(t, TaskRequests(t))
        \/ Exec(t)
        \/ CommitOk(t)
        \/ CommitFault(t)
        \/ Rollback(t)
        \/ Exit(t)

TaskSpec == StoreOnlyInit /\ [][TaskNext]_vars

Returned(t, op) == pc[t] = "exit" /\ req[t].op = op /\ ret[t].status = "ok"

\* C3: concurrent gorev_ekle calls lose and duplicate nothing. Every call that
\* returns hands out an id no earlier call handed out, its row is stored, and
\* the task count istatistik reports is the number of calls that returned
\* (less the rows gorev_sil removed).
C3_NoLostOrDuplicatedWrites ==
    /\ Cardinality(hist.ids) = hist.adds
    /\ \A t \in Threads :
        /\ Returned(t, "gorev_ekle") =>
              /\ ret[t].val \notin hist.ids
              /\ \E r \in db.gorevler : r.id = ret[t].val
        /\ Returned(t, "istatistik") => ret[t].val["gorev"] = hist.adds - hist.dels

\* Two gorev_ekle calls of different threads have returned, and istatistik
\* returns while another thread waits for the lock.
C3_Witness ==
    /\ hist.adds = 2
    /\ hist.dels = 0
    /\ \E t, u \in Threads :
        /\ Returned(t, "istatistik")
        /\ ret[t].val["gorev"] = 2
        /\ pc[u] = "acquire"

\* C4: mutual exclusion. A thread between its first statement and the end of
\* its commit (or rollback) holds the lock, and it is the only such thread.
C4_MutualExclusion ==
    /\ \A t \in Threads : InUnit(t) => lockOwner = t /\ lockCount >= 1
    /\ Cardinality({t \in Threads : InUnit(t)}) <= 1

\* One thread is about to commit a write while another waits for the lock.
C4_Witness ==
    \E t, u \in Threads :
        /\ pc[t] = "commit"
        /\ txn.owner = t
        /\ pc[u] = "acquire"

\* C5: only the lock holder has uncommitted writes, the committed database
\* does not change under a running unit of work, and what a read returns is
\* its evaluation on a committed state of the database.
C5_ReadsSeeCommittedStates ==
    /\ txn.owner # NoThread => txn.owner = lockOwner
    /\ \A t \in Threads :
        /\ InUnit(t) => db = unit[t].base
        /\ Returned(t, "istatistik") =>
              \E d \in unit[t].seen : ret[t].val = istatistik(d)
        /\ Returned(t, "gorev_listele") =>
              \E d \in unit[t].seen : Done(d, ret[t].val) \in gorev_listele(d, req[t].durum)

\* istatistik returns counts of a store holding a pending and a completed task.
C5_Witness ==
    \E t \in Threads :
        /\ Returned(t, "istatistik")
        /\ ret[t].val["gorev"] = 2
        /\ ret[t].val["gorev_bekliyor"] = 1

\* C6: a unit of work is atomic. When the operation leaves get_cursor its
\* connection has no open transaction; after an error the database is the one
\* the operation found, and after a normal return it holds the operation's
\* writes.
C6_AtomicUnitOfWork ==
    \A t \in Threads :
        pc[t] = "exit" =>
            /\ txn.owner # t
            /\ ret[t].status = "error" => db = unit[t].base
            /\ ret[t].status = "ok" => db = unit[t].wrote

\* An operation wrote a row, its commit failed, and it was rolled back.
C6_Witness ==
    \E t \in Threads :
        /\ pc[t] = "exit"
        /\ ret[t].status = "error"
        /\ unit[t].wrote # unit[t].base

----------------------------------------------------------------------------
(* The session store *)

MaxMessages == 2
SessionIds == {"s1", "s2"}
RolInputs == {"user", "assistant", "tool"}

\* The requests a thread may make of the session store, with messages
\* appended to the sessions named by oids; AUTOINCREMENT values are handed out
\* up to MaxMessages.
SessionRequestsFor(t, oids) ==
    {[op |-> "oturum_olustur", id |-> i] : i \in Chosen(t, SessionIds)}
    \cup {[op |-> "oturum_getir", id |-> i] : i \in Chosen(t, SessionIds)}
    \cup {[op |-> "oturum_mesaj_ekle", oid |-> i, rol |-> x, icerik |-> "m"] :
            i \in (IF View(t).seq.mesajlar < MaxMessages THEN oids ELSE {}),
            x \in RolInputs}
    \cup {[op |-> "oturum_mesajlari", oid |-> i, limit |-> 100] : i \in Chosen(t, SessionIds)}

\* Callers of DatabaseManager name any session id.
SessionRequests(t) == SessionRequestsFor(t, SessionIds)

SessionNext ==
    \E t \in Threads :
        \/ Call(t, SessionRequests(t))
        \/ Raise(t)
        \/ Acquire(t, SessionRequests(t))
        \/ Exec(t)
        \/ CommitOk(t)
        \/ CommitFault(t)
        \/ Rollback(t)
        \/ Exit(t)

SessionSpec == StoreOnlyInit /\ [][SessionNext]_vars

\* The session store with the deletion of a session, messages being appended
\* to sessions that exist (as ai_cevapla does, to the active session).
CascadeRequests(t) ==
    SessionRequestsFor(t, Ids(View(t).oturumlar))
    \cup {[op |-> "oturum_sil", id |-> i] : i \in Chosen(t, SessionIds)}

CascadeNext ==
    \E t \in Threads :
        \/ Call(t, CascadeRequests(t))
        \/ Raise(t)
        \/ Acquire(t, CascadeRequests(t))
        \/ Exec(t)
        \/ CommitOk(t)
        \/ CommitFault(t)
        \/ Rollback(t)
        \/ Exit(t)

CascadeSpec == StoreOnlyInit /\ [][CascadeNext]_vars

\* C1: session cascade. Once oturum_sil has deleted a session, no message of
\* that session is stored, and oturum_mesajlari of a session that does not
\* exist returns the empty sequence.
C1_SessionCascade ==
    \A t \in Threads :
        /\ Returned(t, "oturum_sil") =>
              {r \in db.mesajlar : r.oturum_id = req[t].id} = {}
        /\ Returned(t, "oturum_mesajlari") /\ req[t].oid \notin Ids(db.oturumlar) =>
              ret[t].val = <<>>

\* C2: every stored message belongs to a stored session.
C2_MessagesReferenceSessions ==
    \A r \in db.mesajlar : r.oturum_id \in Ids(db.oturumlar)

----------------------------------------------------------------------------
(* SecurityManager and CommandManager on bounded inputs *)

MaxCmdLen == 2
MaxPathLen == 2

SeqsUpTo(S, n) == UNION {[1..k -> S] : k \in 0..n}

CmdAlphabet == {DangerousChars[i] : i \in 1..Len(DangerousChars)} \cup {"l", " ", "\t"}
Commands == SeqsUpTo(CmdAlphabet, MaxCmdLen)

PathNames == {<<"d">>, <<"d", "2">>, <<"e">>, Dot, DotDot}
RelPaths == {[abs |-> a, parts |-> q] : a \in BOOLEAN, q \in SeqsUpTo(PathNames, MaxPathLen)}
BaseDirs == { << <<"d">> >>, << <<"e">>, <<"d">> >> }

\* sanitize_command applied to a command.
SanitizeCommand ==
    /\ guard.pc = "in"
    /\ guard' = [pc |-> "out", cmd |-> guard.cmd, out |-> sanitize_command(guard.cmd)]
    /\ UNCHANGED <<storeVars, sandbox>>

SanitizeInit ==
    /\ StoreInit
    /\ sandbox = Off
    /\ guard \in {[pc |-> "in", cmd |-> c] : c \in Commands}

SanitizeSpec == SanitizeInit /\ [][SanitizeCommand]_vars

\* validate_path applied to a path and a base directory.
ValidatePath ==
    /\ guard.pc = "in"
    /\ guard' = [pc |-> "out", path |-> guard.path, base_dir |-> guard.base_dir,
                 out |-> validate_path(guard.path, guard.base_dir)]
    /\ UNCHANGED <<storeVars, sandbox>>

PathInit ==
    /\ StoreInit
    /\ sandbox = Off
    /\ guard \in {[pc |-> "in", path |-> q, base_dir |-> b] : q \in RelPaths, b \in BaseDirs}

PathSpec == PathInit /\ [][ValidatePath]_vars

SandboxInit == StoreInit /\ guard = Off /\ sandbox = SandboxIdle

SandboxNext ==
    \/ \E c \in Commands : Powershell(c)
    \/ PowershellRun
    \/ \E c \in Commands : Opencode(c)
    \/ OpencodeRun
    \/ ProcessExit
    \/ ProcessTimeout
    \/ SandboxReturn

SandboxSpec == SandboxInit /\ [][SandboxNext]_vars

\* The deny-list of the specification.
DenyList == {";", "&", "|", Backquote, "$", "(", ")", "{", "}", "<", ">", "\n"}

Clean(text) == \A i \in 1..Len(text) : text[i] \notin DenyList

\* The command a spawned process was given: the third argument of powershell,
\* the input line of opencode without its line end.
SpawnedCommand(p) ==
    IF p.argv[1] = "powershell" THEN p.argv[3] ELSE SubSeq(p.input, 1, Len(p.input) - 1)

\* C7: no process is spawned with unsanitized input. Every process run was
\* given what sanitize_command returned for the command, which holds no
\* deny-list character; and a command that sanitize_command rejects ends in a
\* security error with no process run.
C7_NoUnsanitizedSpawn ==
    /\ \A i \in 1..Len(sandbox.spawned) :
          /\ ~sanitize_command(sandbox.cmd).raised
          /\ SpawnedCommand(sandbox.spawned[i]) = sanitize_command(sandbox.cmd).val
          /\ Clean(SpawnedCommand(sandbox.spawned[i]))
    /\ sandbox.pc = "done" /\ ~Clean(sandbox.cmd) =>
          sandbox.spawned = <<>> /\ sandbox.out.kind = "security"

\* A rejected opencode command has returned its security error.
C7_Witness ==
    /\ sandbox.pc = "done"
    /\ sandbox.kind = "opencode"
    /\ sandbox.cmd = <<"l", ";">>
    /\ sandbox.out = [kind |-> "security", char |-> ";"]
    /\ sandbox.spawned = <<>>

\* text with the whitespace at its two ends removed is out.
Trimmed(text, out) ==
    \E i \in 1..(Len(text) + 1), j \in 0..Len(text) :
        /\ out = SubSeq(text, i, j)
        /\ \A k \in 1..(i - 1) : text[k] \in Whitespace
        /\ \A k \in (j + 1)..Len(text) : text[k] \in Whitespace
        /\ out # <<>> => out[1] \notin Whitespace /\ out[Len(out)] \notin Whitespace

\* C8: sanitize_command raises exactly when the command holds a deny-list
\* character; otherwise it returns the command trimmed, and what it returns
\* holds no deny-list character.
C8_SanitizeCommand ==
    guard.pc = "out" =>
        /\ guard.out.raised <=> ~Clean(guard.cmd)
        /\ ~guard.out.raised => Trimmed(guard.cmd, guard.out.val) /\ Clean(guard.out.val)

\* A command with white space in front has been returned without it.
C8_Witness ==
    /\ guard.pc = "out"
    /\ guard.cmd = <<" ", "l">>
    /\ guard.out = [raised |-> FALSE, val |-> <<"l">>]

IsPrefix(p, q) == Len(p) <= Len(q) /\ SubSeq(q, 1, Len(p)) = p

\* C9: validate_path returns true only for a path that, resolved against
\* base_dir, is base_dir or lies below it.
C9_ValidatePathInside ==
    guard.pc = "out" /\ guard.out =>
        IsPrefix(Resolve(guard.base_dir), Resolve(JoinPath(guard.base_dir, guard.path)))

----------------------------------------------------------------------------
(* Short-term memory under concurrent callers and a moving clock *)

ClockStep == 12
MaxClock == 36

\* The uuid4 values drawn.
ShortIds == {"k1", "k2"}
Limits == {1, 10}
ClockValues == {k * ClockStep : k \in 0..(MaxClock \div ClockStep)}

\* Time passes.
Tick ==
    /\ clock + ClockStep <= MaxClock
    /\ clock' = clock + ClockStep
    /\ UNCHANGED <<db, txn, lockOwner, lockCount, conns, pc, req, stmt, ret, unit, hist, faults>>
    /\ UNCHANGED outside

\* What the second datetime.now() of kisa_ekle may read: any time from its
\* first reading to the moment the lock is granted.
ReadAgain(t) ==
    IF pc[t] = "acquire" THEN {c \in ClockValues : req[t].now <= c /\ c <= clock} ELSE {clock}

ShortRequests(t) ==
    {[op |-> "kisa_ekle", id |-> i, icerik |-> "m", later |-> c] :
        i \in Chosen(t, ShortIds), c \in ReadAgain(t)}
    \cup {[op |-> "kisa_getir", limit |-> n] : n \in Chosen(t, Limits)}
    \cup {[op |-> "kisa_temizle"]}

ShortNext ==
    \/ Tick
    \/ \E t \in Threads :
        \/ Call(t, ShortRequests(t))
        \/ Acquire(t, ShortRequests(t))
        \/ Exec(t)
        \/ CommitOk(t)
        \/ CommitFault(t)
        \/ Rollback(t)
        \/ Exit(t)

\* The database file outlives the process: the store may open on rows of the
\* other tiers written by an earlier run.
StoredBefore ==
    {EmptyDB,
     [EmptyDB EXCEPT
        !.uzun_sureli = {[id |-> "u1", icerik |-> "m", etiketler |-> json_dumps(<<>>),
                          onem |-> 5, olusturma |-> isoformat(0)]},
        !.gorevler = {[id |-> 1, baslik |-> "a", aciklama |-> "", oncelik |-> "orta",
                       durum |-> "bekliyor", olusturma |-> 0, tamamlanma |-> <<>>]},
        !.seq.gorevler = 1]}

ShortInit ==
    /\ db \in StoredBefore
    /\ txn = NoTxn
    /\ lockOwner = NoThread
    /\ lockCount = 0
    /\ conns = {}
    /\ pc = [t \in Threads |-> "idle"]
    /\ req = [t \in Threads |-> NoReq]
    /\ stmt = [t \in Threads |-> 1]
    /\ ret = [t \in Threads |-> NoRet]
    /\ unit = [t \in Threads |-> NoUnit]
    /\ hist = [adds |-> 0, ids |-> {}, dels |-> 0]
    /\ faults = 0
    /\ clock = 0
    /\ guard = Off
    /\ sandbox = Off

ShortSpec == ShortInit /\ [][ShortNext]_vars

Range(s) == {s[i] : i \in 1..Len(s)}

\* The stored entries created at time t0.
CreatedAt(t0) == {r \in db.kisa_sureli : r.olusturma = isoformat(t0)}

\* The stored entries other than r that are as new as r or newer and have not
\* expired at time now.
Rivals(r, now) ==
    {q \in db.kisa_sureli \ {r} :
        \E tq, tr \in ClockValues :
            /\ q.olusturma = isoformat(tq)
            /\ r.olusturma = isoformat(tr)
            /\ tq >= tr
            /\ \E e \in 0..(MaxClock + TTL_HOURS) : q.bitis = isoformat(e) /\ e > now}

\* C10 as stated: a stored entry created at t0 is in the result of every
\* kisa_getir made at a time before t0 + 24h.
C10_Original ==
    \A t \in Threads : Returned(t, "kisa_getir") =>
        \A t0 \in ClockValues : \A r \in CreatedAt(t0) :
            req[t].now < t0 + TTL_HOURS => r \in Range(ret[t].val)

\* C10: a stored (not pruned) entry created at t0 is in the result of every
\* kisa_getir(limit) made at a time before t0 + 24h, provided fewer than limit
\* other unexpired entries are as new or newer; the result has at most limit
\* entries, newest first.
C10_TTLVisibility ==
    \A t \in Threads : Returned(t, "kisa_getir") =>
        \A t0 \in ClockValues : \A r \in CreatedAt(t0) :
            /\ req[t].now < t0 + TTL_HOURS
            /\ Cardinality(Rivals(r, req[t].now)) < req[t].limit
            => r \in Range(ret[t].val)

\* A query made twelve hours after an entry was created, with another entry
\* stored, has returned it.
C10_Witness ==
    \E t \in Threads :
        /\ Returned(t, "kisa_getir")
        /\ req[t].now = ClockStep
        /\ Cardinality(db.kisa_sureli) = 2
        /\ \E r \in CreatedAt(0) : r \in Range(ret[t].val)

\* The time a stored expiry text stands for.
ExpiryOf(r) == CHOOSE e \in 0..(MaxClock + TTL_HOURS) : r.bitis = isoformat(e)

\* C11: TTL removal. When kisa_temizle called at a time later than t0 + 24h has
\* returned, no entry created at t0 is stored; and no kisa_getir made at a time
\* later than t0 + 24h returns an entry created at t0.
C11_TTLRemoval ==
    \A t \in Threads : \A t0 \in ClockValues :
        /\ Returned(t, "kisa_temizle") /\ req[t].now > t0 + TTL_HOURS => CreatedAt(t0) = {}
        /\ Returned(t, "kisa_getir") /\ req[t].now > t0 + TTL_HOURS =>
              CreatedAt(t0) \cap Range(ret[t].val) = {}

\* C12: kisa_temizle called at time now deletes exactly the short-term rows
\* whose expiry is before now and returns how many they were; the other
\* short-term rows, whenever they were inserted, and the rows of every other
\* table are as they were when the lock was granted.
C12_PruneExactly ==
    \A t \in Threads : Returned(t, "kisa_temizle") =>
        LET before == unit[t].base
            gone == {r \in before.kisa_sureli : ExpiryOf(r) < req[t].now}
        IN  /\ db = [before EXCEPT !.kisa_sureli = @ \ gone]
            /\ ret[t].val = Cardinality(gone)

\* A prune has deleted one expired entry and left an unexpired one and the
\* rows of the other tables.
C12_Witness ==
    \E t \in Threads :
        /\ Returned(t, "kisa_temizle")
        /\ ret[t].val = 1
        /\ Cardinality(db.kisa_sureli) = 1
        /\ db.uzun_sureli # {}
        /\ db.gorevler # {}

----------------------------------------------------------------------------
(* Learned answers under concurrent callers *)

MaxLearned == 3

Sorular == {<<"q">>, <<"Q">>, <<" ", "q">>, <<"r">>}
Yanitlar == {"4", "5"}

\* AUTOINCREMENT values of ogrenilen are handed out up to MaxLearned.
LearnRequests(t) ==
    {[op |-> "ogren", soru |-> q, yanit |-> a] :
        q \in (IF View(t).seq.ogrenilen < MaxLearned THEN Sorular ELSE {}), a \in Yanitlar}

LearnNext ==
    \E t \in Threads :
        \/ Call(t, LearnRequests(t))
        \/ Acquire(t, LearnRequests(t))
        \/ Exec(t)
        \/ CommitOk(t)
        \/ CommitFault(t)
        \/ Rollback(t)
        \/ Exit(t)

LearnSpec == StoreOnlyInit /\ [][LearnNext]_vars

\* The question lower-cased and trimmed.
Normalized(q) == Strip(Lower(q))

\* C13: the store holds at most one learned row per normalized question, and
\* when ogren returns, the row of its normalized question carries its answer.
C13_LearnedUpsert ==
    /\ \A r1, r2 \in db.ogrenilen :
          Normalized(r1.soru) = Normalized(r2.soru) => r1 = r2
    /\ \A t \in Threads : Returned(t, "ogren") =>
          \E r \in db.ogrenilen :
              r.soru = Normalized(req[t].soru) /\ r.yanit = req[t].yanit

\* A second ogren of the same question in other letters has replaced the
\* answer of the first.
C13_Witness ==
    \E t \in Threads :
        /\ Returned(t, "ogren")
        /\ req[t].soru = <<"Q">>
        /\ req[t].yanit = "5"
        /\ \E r \in db.ogrenilen : r.id = 2 /\ r.soru = <<"q">> /\ r.yanit = "5"
        /\ Cardinality(db.ogrenilen) = 1

----------------------------------------------------------------------------
(* Enumerated fields and task completion *)

\* C14: enumerated fields are validated before persisting. A gorev_ekle whose
\* priority is outside the declared set fails before its INSERT is executed,
\* and no stored task has a priority or a status outside its declared set.
C14_EnumsValidatedFirst ==
    /\ \A t \in Threads :
          req[t].op = "gorev_ekle" /\ req[t].oncelik \notin Oncelikler =>
              pc[t] \notin {"commit", "rollback", "exit"}
    /\ \A r \in db.gorevler : r.oncelik \in Oncelikler /\ r.durum \in Durumlar

\* C17: a task has tamamlanma set exactly when its status is tamamlandi; a
\* task gorev_ekle has just added is bekliyor with tamamlanma unset; and
\* gorev_tamamla(id) changes the task with that id and no other row.
C17_TaskCompletion ==
    /\ \A r \in db.gorevler : r.tamamlanma # <<>> <=> r.durum = "tamamlandi"
    /\ \A t \in Threads : Returned(t, "gorev_ekle") =>
          \E r \in db.gorevler :
              r.id = ret[t].val /\ r.durum = "bekliyor" /\ r.tamamlanma = <<>>
    /\ \A t \in Threads : Returned(t, "gorev_tamamla") =>
          LET before == unit[t].base
          IN  /\ \A r \in db.gorevler :
                    r.id = req[t].id => r.durum = "tamamlandi" /\ r.tamamlanma = <<req[t].now>>
              /\ {r \in db.gorevler : r.id # req[t].id}
                    = {r \in before.gorevler : r.id # req[t].id}
              /\ Ids(db.gorevler) = Ids(before.gorevler)
              /\ db = [before EXCEPT !.gorevler = db.gorevler]
              /\ req[t].id \notin Ids(before.gorevler) => db = before

\* gorev_tamamla has completed one of two stored tasks.
C17_Witness ==
    \E t \in Threads :
        /\ Returned(t, "gorev_tamamla")
        /\ Cardinality(db.gorevler) = 2
        /\ Cardinality({r \in db.gorevler : r.durum = "tamamlandi"}) = 1
        /\ \E r \in db.gorevler : r.id = req[t].id /\ r.tamamlanma # <<>>

----------------------------------------------------------------------------
(* Long-term memory under concurrent callers *)

LongIds == {"u1", "u2"}
OnemInputs == {0, 1, 10, 11}

LongRequests(t) ==
    {[op |-> "uzun_ekle", id |-> i, icerik |-> "m", etiketler |-> <<>>, onem |-> n] :
        i \in Chosen(t, LongIds), n \in OnemInputs}

LongNext ==
    \E t \in Threads :
        \/ Call(t, LongRequests(t))
        \/ Raise(t)
        \/ Acquire(t, LongRequests(t))
        \/ Exec(t)
        \/ CommitOk(t)
        \/ CommitFault(t)
        \/ Rollback(t)
        \/ Exit(t)

LongSpec == StoreOnlyInit /\ [][LongNext]_vars

\* C15: uzun_ekle with an importance outside 1..10 raises ValueError without
\* asking for the cursor, so it writes nothing; every stored long-term entry
\* has an importance from 1 to 10.
C15_ImportanceRange ==
    /\ \A t \in Threads :
          req[t].op = "uzun_ekle" /\ ~(1 <= req[t].onem /\ req[t].onem <= 10) =>
              /\ pc[t] = "raised"
              /\ ret[t] = [status |-> "error", val |-> "ValueError"]
              /\ lockOwner # t
              /\ txn.owner # t
    /\ \A r \in db.uzun_sureli : 1 <= r.onem /\ r.onem <= 10

\* An importance of 11 has been rejected while an entry is stored.
C15_Witness ==
    \E t \in Threads :
        /\ pc[t] = "raised"
        /\ req[t].op = "uzun_ekle"
        /\ req[t].onem = 11
        /\ db.uzun_sureli # {}

\* One session and the messages appended to it.
MessageRequests(t) ==
    {[op |-> "oturum_olustur", id |-> i] : i \in Chosen(t, {"s1"})}
    \cup {[op |-> "oturum_mesaj_ekle", oid |-> "s1", rol |-> x, icerik |-> "m"] :
            x \in (IF View(t).seq.mesajlar < MaxMessages THEN RolInputs ELSE {})}
    \cup {[op |-> "oturum_mesajlari", oid |-> i, limit |-> 100] : i \in Chosen(t, {"s1"})}

MessageNext ==
    \E t \in Threads :
        \/ Call(t, MessageRequests(t))
        \/ Raise(t)
        \/ Acquire(t, MessageRequests(t))
        \/ Exec(t)
        \/ CommitOk(t)
        \/ CommitFault(t)
        \/ Rollback(t)
        \/ Exit(t)

MessageSpec == StoreOnlyInit /\ [][MessageNext]_vars

\* C16: oturum_mesaj_ekle with a role other than user, assistant or system
\* raises ValueError without asking for the cursor, so it writes nothing; every
\* stored message has one of the three roles.
C16_RoleChecked ==
    /\ \A t \in Threads :
          req[t].op = "oturum_mesaj_ekle" /\ req[t].rol \notin {"user", "assistant", "system"} =>
              /\ pc[t] = "raised"
              /\ ret[t] = [status |-> "error", val |-> "ValueError"]
              /\ lockOwner # t
              /\ txn.owner # t
    /\ \A r \in db.mesajlar : r.rol \in {"user", "assistant", "system"}

\* The role tool has been rejected while a message is stored.
C16_Witness ==
    \E t \in Threads :
        /\ pc[t] = "raised"
        /\ req[t].op = "oturum_mesaj_ekle"
        /\ req[t].rol = "tool"
        /\ db.mesajlar # {}

----------------------------------------------------------------------------
(* The outcomes of a sandboxed process *)

\* A process that was started ends or is timed out; a command that has
\* reached subprocess.run goes on into it.
SandboxProgress == PowershellRun \/ OpencodeRun \/ ProcessExit \/ ProcessTimeout

SandboxLiveSpec == SandboxInit /\ [][SandboxNext]_vars /\ WF_vars(SandboxProgress)

\* The limit configured for the kind of the command.
LimitOf(kind) == IF kind = "powershell" THEN ps_timeout ELSE opencode_timeout

LastSpawned == sandbox.spawned[Len(sandbox.spawned)]

\* C18: when the timeout passes, the process has been killed and the operation
\* ends with the timeout text carrying the configured limit, which is the
\* limit subprocess.run was given; and an operation that has reached
\* subprocess.run always comes to its end.
C18_TimeoutOutcome ==
    /\ [](sandbox.pc = "done" /\ sandbox.proc.kind = "timeout" =>
            /\ LastSpawned.state = "killed"
            /\ LastSpawned.timeout = LimitOf(sandbox.kind)
            /\ sandbox.out = [kind |-> "timeout", limit |-> LimitOf(sandbox.kind)])
    /\ (sandbox.pc \in {"run", "wait"} ~> sandbox.pc = "done")

\* An opencode process has been timed out.
C18_Witness ==
    /\ sandbox.pc = "done"
    /\ sandbox.kind = "opencode"
    /\ sandbox.proc.kind = "timeout"
    /\ sandbox.out = [kind |-> "timeout", limit |-> opencode_timeout]
    /\ LastSpawned.state = "killed"

\* C19: for both kinds of command, a process that ended with a non-zero return
\* code makes the operation return the text that embeds the code and the
\* truncated error output.
C19_ExitCodeSurfaced ==
    sandbox.pc = "done" /\ sandbox.proc.kind = "exit" /\ sandbox.proc.rc # 0 =>
        /\ sandbox.out.kind = "exit_code"
        /\ sandbox.out.code = sandbox.proc.rc
        /\ sandbox.out.text = Truncate(Strip(sandbox.proc.stderr), PsErrorBudget)

\* The budget of the kind of the command.
BudgetOf(kind) == IF kind = "powershell" THEN PsOutputBudget ELSE OcOutputBudget

\* C20: for a process that ended with return code 0, the text returned is the
\* standard output followed by the standard error, cut to the budget of the
\* kind (white space at the two ends apart; nothing when both are empty).
C20_CombinedOutputTruncated ==
    sandbox.pc = "done" /\ sandbox.proc.kind = "exit" /\ sandbox.proc.rc = 0 =>
        LET combined == sandbox.proc.stdout \o sandbox.proc.stderr
        IN  IF combined = <<>>
            THEN sandbox.out.kind = "empty" \/ sandbox.out = [kind |-> "output", text |-> <<>>]
            ELSE /\ sandbox.out.kind = "output"
                 /\ Len(sandbox.out.text) <= BudgetOf(sandbox.kind)
                 /\ Strip(sandbox.out.text) = Strip(Truncate(combined, BudgetOf(sandbox.kind)))

----------------------------------------------------------------------------
(* The two ways a free text comes in: the command loop and the JSON routes. *)
(* A text is carried by its length, the only thing the length gate reads.   *)

max_input_length == 10000
MessageBudget == 500

\* SecurityManager.validate_input_length; max_length 0 stands for None.
validate_input_length(text_len, max_length) ==
    LET max_len == IF max_length # 0 THEN max_length ELSE max_input_length
    IN  ~(text_len > max_len)

EntryCommands == {"hafiza-ekle", "hafiza-kisa", "ogret", "gorev ekle", "ps", "oc", "ai"}
Routes == {"ai", "hafiza-ekle", "hafiza-kisa", "ogret", "gorev ekle"}

\* The characters of a command line before its free text.
CliPrefix(cmd) ==
    CASE cmd \in {"hafiza-ekle", "hafiza-kisa"} -> 12
      [] cmd = "ogret" -> 6
      [] cmd = "gorev ekle" -> 11
      [] OTHER -> 3

\* The operation a command or a route hands its text to.
SinkOf(cmd) ==
    CASE cmd = "hafiza-ekle" -> "uzun_ekle"
      [] cmd = "hafiza-kisa" -> "kisa_ekle"
      [] cmd = "ogret" -> "ogren"
      [] cmd = "gorev ekle" -> "gorev_ekle"
      [] cmd = "ps" -> "powershell"
      [] cmd = "oc" -> "opencode"
      [] OTHER -> "oturum_mesaj_ekle"

\* ai_cevapla stores soru[:500] in the open session.
ai_cevapla_stored(text_len) == IF text_len > MessageBudget THEN MessageBudget ELSE text_len

\* The question of "ogret <soru> - y": the text less the separator and a
\* one-character answer.
OgretSoru(payload) == payload - 4

\* The length of the text the operation receives.
SinkLen(cmd, payload) ==
    CASE cmd = "ai" -> ai_cevapla_stored(payload)
      [] cmd = "ogret" -> OgretSoru(payload)
      [] OTHER -> payload

\* calistir and _komut_isle on one line read from the terminal.
Calistir ==
    /\ guard.pc = "in"
    /\ guard.via = "cli"
    /\ LET payload == guard.len - CliPrefix(guard.cmd)
           stopped ==
               \/ ~validate_input_length(guard.len, 0)
               \/ /\ guard.cmd \in {"hafiza-ekle", "hafiza-kisa"}
                  /\ ~validate_input_length(payload, 0)
       IN  guard' = [pc |-> "out", via |-> "cli", cmd |-> guard.cmd, len |-> guard.len,
                     sinks |-> IF stopped THEN <<>>
                               ELSE <<[op |-> SinkOf(guard.cmd),
                                       len |-> SinkLen(guard.cmd, payload)]>>]
    /\ UNCHANGED <<storeVars, sandbox>>

\* The routes /ai, /hafiza/ekle, /ogret and /gorev/ekle on one JSON request
\* whose text field is not empty.
ApiRoute ==
    /\ guard.pc = "in"
    /\ guard.via = "api"
    /\ guard' = [pc |-> "out", via |-> "api", cmd |-> guard.cmd, len |-> guard.len,
                 sinks |-> <<[op |-> SinkOf(guard.cmd),
                              len |-> IF guard.cmd = "ai" THEN ai_cevapla_stored(guard.len)
                                      ELSE guard.len]>>]
    /\ UNCHANGED <<storeVars, sandbox>>

InputLens ==
    {CliPrefix("hafiza-ekle") + 1, MessageBudget, MessageBudget + 1,
     max_input_length - 1, max_input_length, max_input_length + 1,
     max_input_length + CliPrefix("hafiza-ekle"),
     max_input_length + CliPrefix("hafiza-ekle") + 1}

EntryInit ==
    /\ StoreInit
    /\ sandbox = Off
    /\ guard \in {[pc |-> "in", via |-> "cli", cmd |-> c, len |-> n] :
                    c \in EntryCommands, n \in InputLens}
             \cup {[pc |-> "in", via |-> "api", cmd |-> c, len |-> n] :
                    c \in Routes, n \in InputLens}

EntryNext == Calistir \/ ApiRoute

EntrySpec == EntryInit /\ [][EntryNext]_vars

\* C21: on every input path, the text handed to a store write or to a command
\* execution is never longer than the configured maximum.
C21_LengthGate ==
    guard.pc = "out" =>
        \A i \in 1..Len(guard.sinks) : guard.sinks[i].len <= max_input_length

----------------------------------------------------------------------------
(* Error messages and the log.  A message is a sequence of words separated  *)
(* by single blanks; "sk-K20" is sk- followed by twenty letters, "sk-k" is  *)
(* sk- followed by two.                                                     *)

MaxErrLen == 2

ErrWords == {"sk-K20", "sk-k", "Bearer", "tok", "password=v", "password="}

\* re.sub(r'sk-[a-zA-Z0-9]{20,}', 'sk-***', text)
MaskKeys(s) == [i \in 1..Len(s) |-> IF s[i] = "sk-K20" THEN "sk-***" ELSE s[i]]

\* What is left of the word after "Bearer " once [a-zA-Z0-9\-_]+ has matched
\* its head and the match has become ***.
BearerTail(w) ==
    CASE w = "sk-***" -> "******"
      [] w = "password=v" -> "***=v"
      [] w = "password=" -> "***="
      [] OTHER -> "***"

RECURSIVE MaskBearer(_)
\* re.sub(r'Bearer\s+[a-zA-Z0-9\-_]+', 'Bearer ***', text)
MaskBearer(s) ==
    IF Len(s) < 2 THEN s
    ELSE IF s[1] = "Bearer"
         THEN <<"Bearer", BearerTail(s[2])>> \o MaskBearer(SubSeq(s, 3, Len(s)))
         ELSE <<s[1]>> \o MaskBearer(Tail(s))

RECURSIVE MaskPassword(_)
\* re.sub(r'password[=:]\s*\S+', 'password=***', text)
MaskPassword(s) ==
    IF s = <<>> THEN <<>>
    ELSE IF s[1] = "password=v"
         THEN <<"password=***">> \o MaskPassword(Tail(s))
         ELSE IF s[1] = "password=" /\ Len(s) >= 2
              THEN <<"password=***">> \o MaskPassword(SubSeq(s, 3, Len(s)))
              ELSE <<s[1]>> \o MaskPassword(Tail(s))

\* SecurityManager.mask_sensitive_data: the three substitutions in turn.
mask_sensitive_data(text) == MaskPassword(MaskBearer(MaskKeys(text)))

\* The places that write the text of an exception to the log.
LogSites == {"get_cursor", "ogren", "sorgula", "_ollama_sorgula", "_openai_sorgula",
             "kapat", "validate_path"}

Messages == UNION {[1..k -> ErrWords] : k \in 0..MaxErrLen}

\* logger.error(f"...: {e}") at one of the sites.
LogError ==
    /\ guard.pc = "in"
    /\ guard' = [pc |-> "out", site |-> guard.site, e |-> guard.e, logged |-> guard.e]
    /\ UNCHANGED <<storeVars, sandbox>>

LogInit ==
    /\ StoreInit
    /\ sandbox = Off
    /\ guard \in {[pc |-> "in", site |-> x, e |-> msg] : x \in LogSites, msg \in Messages}

LogSpec == LogInit /\ [][LogError]_vars

\* C22: the text of an error written to a log is the masked text of the
\* error: key-shaped, bearer-token and password substrings are replaced.
C22_LogsMasked ==
    guard.pc = "out" => guard.logged = mask_sensitive_data(guard.e)

----------------------------------------------------------------------------
(* Shutdown *)

\* YerelAIAsistan.kapat run by thread t: DatabaseManager.close closes and
\* forgets the connection cached for the calling thread; self.local holds no
\* other.
kapat(t) ==
    /\ pc[t] = "idle"
    /\ conns' = conns \ {t}
    /\ UNCHANGED <<db, txn, lockOwner, lockCount, pc, req, stmt, ret, unit, hist, faults, clock>>
    /\ UNCHANGED outside

ShutdownRequests(t) ==
    {[op |-> "gorev_ekle", baslik |-> b, aciklama |-> "", oncelik |-> "orta"] :
        b \in (IF View(t).seq.gorevler < MaxTasks THEN Basliklar ELSE {})}
    \cup {[op |-> "istatistik"]}

ShutdownNext ==
    \E t \in Threads :
        \/ Call(t, ShutdownRequests(t))
        \/ Acquire(t, ShutdownRequests(t))
        \/ Exec(t)
        \/ CommitOk(t)
        \/ CommitFault(t)
        \/ Rollback(t)
        \/ Exit(t)
        \/ kapat(t)

ShutdownSpec == StoreOnlyInit /\ [][ShutdownNext]_vars

\* C23: a thread inside a store operation works on its own cached connection,
\* and when the shutdown routine has run no connection of any thread is open.
C23_ShutdownClosesAll ==
    /\ [](\A t \in Threads : InUnit(t) => t \in conns)
    /\ [][(\E t \in Threads : kapat(t)) => conns' = {}]_vars

----------------------------------------------------------------------------
(* The cursor and the lock on every way out of a store operation *)

\* Texts of the long-term entries and the tags they carry.
Tags == {<<"o", "s">>, <<"p", "o", "s", "i", "x">>}

CursorRequests(t) ==
    {[op |-> "uzun_ekle", id |-> i, icerik |-> <<"a">>, etiketler |-> <<g>>, onem |-> n] :
        i \in Chosen(t, LongIds), g \in Tags, n \in {5, 11}}
    \cup {[op |-> "uzun_getir", etiketler |-> e, limit |-> 50] :
            e \in Chosen(t, {<<>>, << <<"o", "s">> >>})}

CursorNext ==
    \E t \in Threads :
        \/ Call(t, CursorRequests(t))
        \/ Raise(t)
        \/ Acquire(t, CursorRequests(t))
        \/ Exec(t)
        \/ Resume(t)
        \/ GeneratorClose(t)
        \/ CommitOk(t)
        \/ CommitFault(t)
        \/ Rollback(t)
        \/ Exit(t)

CursorSpec == StoreOnlyInit /\ [][CursorNext]_vars

\* C24: a thread that is not inside a store operation (the operation returned,
\* raised, or its generator was closed) has no open cursor and does not hold
\* the lock; the step that ends an operation closes its cursor and puts the
\* hold count back to what it was when the operation asked for the lock.
C24_ReleaseOnExit ==
    /\ [](\A t \in Threads :
            pc[t] \in {"idle", "raised"} => unit[t].cursor # "open" /\ lockOwner # t)
    /\ [](lockOwner = NoThread <=> lockCount = 0)
    /\ [][\A t \in Threads :
            pc[t] \notin {"idle", "raised"} /\ pc'[t] = "idle" =>
                /\ unit'[t].cursor = "closed"
                /\ lockCount' = unit[t].held]_vars

\* Every thread has come out of a store operation, one of them out of a
\* failed commit; nobody holds the lock.
C24_Witness ==
    /\ faults > 0
    /\ \A t \in Threads : pc[t] = "idle" /\ unit[t].cursor = "closed"
    /\ lockOwner = NoThread
    /\ lockCount = 0

----------------------------------------------------------------------------
(* Search over the long-term entries *)

Icerikler == {<<"a">>, <<"A", "%">>}
Sorgular == {<<>>, <<"a">>, <<"A">>, <<"%">>, <<"_">>, <<"o">>}

SearchRequests(t) ==
    {[op |-> "uzun_ekle", id |-> i, icerik |-> c, etiketler |-> e, onem |-> n] :
        i \in Chosen(t, LongIds), c \in Icerikler, e \in {<<>>, << <<"o", "s">> >>}, n \in {5, 7}}
    \cup {[op |-> "uzun_ara", sorgu |-> q] : q \in Chosen(t, Sorgular)}

SearchNext ==
    \E t \in Threads :
        \/ Call(t, SearchRequests(t))
        \/ Acquire(t, SearchRequests(t))
        \/ Exec(t)
        \/ CommitOk(t)
        \/ CommitFault(t)
        \/ Rollback(t)
        \/ Exit(t)

SearchSpec == StoreOnlyInit /\ [][SearchNext]_vars

\* piece occurs in text, character for character.
Substring(piece, text) ==
    \E k \in 0..(Len(text) - Len(piece)) : SubSeq(text, k + 1, k + Len(piece)) = piece

\* C25: uzun_ara(sorgu) returns the long-term entries whose content or
\* serialized tags hold sorgu as a literal substring, all of them up to 50,
\* the more important first and, among equals, the newer first.
C25_SearchLiteral ==
    \A t \in Threads :
        Returned(t, "uzun_ara") =>
            LET v == ret[t].val
                hits == {r \in db.uzun_sureli :
                            Substring(req[t].sorgu, r.icerik)
                            \/ Substring(req[t].sorgu, r.etiketler)}
            IN  /\ Len(v) <= SearchLimit
                /\ Cardinality(hits) <= SearchLimit => Range(v) = hits /\ Len(v) = Cardinality(hits)
                /\ \A i, j \in 1..Len(v) : i < j =>
                      \/ v[i].onem > v[j].onem
                      \/ /\ v[i].onem = v[j].onem
                         /\ ~TextLess(v[i].olusturma, v[j].olusturma)

----------------------------------------------------------------------------
(* sanitize_sql_like on its own *)

MaxQueryLen == 3

QueryAlphabet == {Backslash, "%", "_", "a"}
Queries == SeqsUpTo(QueryAlphabet, MaxQueryLen)

\* sanitize_sql_like applied to a query.
SanitizeSqlLike ==
    /\ guard.pc = "in"
    /\ guard' = [pc |-> "out", sorgu |-> guard.sorgu, out |-> sanitize_sql_like(guard.sorgu)]
    /\ UNCHANGED <<storeVars, sandbox>>

EscapeInit ==
    /\ StoreInit
    /\ sandbox = Off
    /\ guard \in {[pc |-> "in", sorgu |-> q] : q \in Queries}

EscapeSpec == EscapeInit /\ [][SanitizeSqlLike]_vars

RECURSIVE EscapedChars(_)
\* The query with a backslash put before each backslash, percent and underscore.
EscapedChars(q) ==
    IF q = <<>> THEN <<>>
    ELSE (IF q[1] \in {Backslash, "%", "_"} THEN <<Backslash, q[1]>> ELSE <<q[1]>>)
         \o EscapedChars(Tail(q))

\* C26: for every query, the empty one too, sanitize_sql_like returns the
\* query with backslash, percent and underscore escaped by a backslash,
\* between one leading and one trailing percent.
C26_EscapeForSearch ==
    guard.pc = "out" => guard.out = <<"%">> \o EscapedChars(guard.sorgu) \o <<"%">>

----------------------------------------------------------------------------
(* Tags of the long-term entries *)

Os == <<"o", "s">>
Posix == <<"p", "o", "s", "i", "x">>

\* The tag lists entries are stored with, and the tags asked for.
StoredTagLists == {<<Os>>, <<Posix>>, <<Posix, Os>>, << <<OUml>> >>}
AskedTags == {Os, Posix, <<OUml>>, <<"O", "S">>, <<"p", "_", "s", "i", "x">>}

TagRequests(t) ==
    {[op |-> "uzun_ekle", id |-> i, icerik |-> <<"a">>, etiketler |-> e, onem |-> 5] :
        i \in Chosen(t, LongIds), e \in StoredTagLists}
    \cup {[op |-> "uzun_getir", etiketler |-> <<g>>, limit |-> SearchLimit] :
            g \in Chosen(t, AskedTags)}

TagNext ==
    \E t \in Threads :
        \/ Call(t, TagRequests(t))
        \/ Acquire(t, TagRequests(t))
        \/ Exec(t)
        \/ Resume(t)
        \/ GeneratorClose(t)
        \/ CommitOk(t)
        \/ CommitFault(t)
        \/ Rollback(t)
        \/ Exit(t)

TagSpec == StoreOnlyInit /\ [][TagNext]_vars

\* The stored entries that were added with tag g in their list of tags.
AddedWith(g) ==
    {r \in db.uzun_sureli :
        \E e \in StoredTagLists : g \in Range(e) /\ r.etiketler = json_dumps(e)}

\* C27: once uzun_ekle(icerik, etiketler, onem) has succeeded, uzun_getir([g])
\* yields the entry, for every tag g of etiketler.
C27_TagRoundTrip ==
    \A t \in Threads :
        Returned(t, "uzun_getir") =>
            AddedWith(req[t].etiketler[1]) \subseteq Range(ret[t].val)

\* The stored entries whose only tag is g.
OnlyTag(g) == {r \in db.uzun_sureli : r.etiketler = json_dumps(<<g>>)}

\* text holds piece when ASCII case is left aside.
SubstringFolded(piece, text) ==
    \E k \in 0..(Len(text) - Len(piece)) :
        \A i \in 1..Len(piece) : LikeFold(text[k + i]) = LikeFold(piece[i])

\* C28 as first stated: uzun_getir([g]) yields the entries whose serialized
\* tag list holds g as a plain substring, so for the tag os it yields an entry
\* whose only tag is posix.
C28_Original ==
    \A t \in Threads :
        Returned(t, "uzun_getir") =>
            /\ Range(ret[t].val) = {r \in db.uzun_sureli : Substring(req[t].etiketler[1], r.etiketler)}
            /\ req[t].etiketler[1] = Os => OnlyTag(Posix) \subseteq Range(ret[t].val)

\* C28: uzun_getir([g]) matches g between double quotes against the
\* serialized tag list with LIKE. Asked for os it yields no entry whose only
\* tag is posix; every entry it yields for a tag without wildcards holds the
\* quoted tag, ASCII case aside; asked for OS it yields the entries tagged os,
\* and asked for p_six those tagged posix.
C28_TagMatch ==
    \A t \in Threads :
        Returned(t, "uzun_getir") =>
            LET g == req[t].etiketler[1]
                got == Range(ret[t].val)
            IN  /\ g = Os => got \cap OnlyTag(Posix) = {}
                /\ ~Contains(g, "_") /\ ~Contains(g, "%") =>
                      got = {r \in db.uzun_sureli :
                                SubstringFolded(<<Quote>> \o g \o <<Quote>>, r.etiketler)}
                /\ g = <<"O", "S">> => OnlyTag(Os) \subseteq got
                /\ g = <<"p", "_", "s", "i", "x">> => OnlyTag(Posix) \subseteq got

\* uzun_getir(["os"]) has returned without the stored entry whose only tag is
\* posix, and with the stored entry tagged posix and os.
C28_Witness ==
    \E t \in Threads :
        /\ Returned(t, "uzun_getir")
        /\ req[t].etiketler = <<Os>>
        /\ OnlyTag(Posix) # {}
        /\ Range(ret[t].val) # {}
        /\ Range(ret[t].val) \cap OnlyTag(Posix) = {}

----------------------------------------------------------------------------
(* AIManager: the message list, and the outcome of a query *)

MaxContext == 11
ContextWindow == 10

\* A turn as oturum_mesajlari hands it over; every fourth one lacks its role.
Turn(i) ==
    IF i % 4 = 0 THEN [icerik |-> <<i>>]
    ELSE [rol |-> IF i % 2 = 1 THEN "user" ELSE "assistant", icerik |-> <<i>>]

\* The first n turns of a conversation.
Conversation(n) == [i \in 1..n |-> Turn(i)]

\* A message list that takes every prior turn.
LastTurns_All(context) == context

\* context[-10:]
LastTurns(context) ==
    IF Len(context) <= ContextWindow THEN context
    ELSE SubSeq(context, Len(context) - ContextWindow + 1, Len(context))

\* {"role": msg.get("rol", "user"), "content": msg.get("icerik", "")}
TurnMessage(msg) ==
    [role |-> IF "rol" \in DOMAIN msg THEN msg.rol ELSE "user",
     content |-> IF "icerik" \in DOMAIN msg THEN msg.icerik ELSE <<>>]

\* The messages _ollama_sorgula and _openai_sorgula put together; an empty
\* system_prompt (or None) adds nothing, as does an empty context.
BuildMessages(prompt, system_prompt, context) ==
    (IF system_prompt # <<>> THEN <<[role |-> "system", content |-> system_prompt]>> ELSE <<>>)
    \o [i \in 1..Len(LastTurns(context)) |-> TurnMessage(LastTurns(context)[i])]
    \o <<[role |-> "user", content |-> prompt]>>

\* Python values a query can return.
Str(text) == [type |-> "str", text |-> text]
None == [type |-> "NoneType"]
\* A field the reply does not have.
Missing == [type |-> "missing"]

Returns(v) == [raised |-> FALSE, val |-> v]
Raises(e) == [raised |-> TRUE, val |-> [type |-> "exception", name |-> e]]

\* What urlopen and the decoding of its reply can come to: a JSON reply with
\* the content as a string, as null, or without the field; or an exception.
HttpOutcomes ==
    {[kind |-> "reply", content |-> c] : c \in {Str(<<"cevap">>), None, Missing}}
    \cup {[kind |-> k] : k \in {"URLError", "JSONDecodeError", "TimeoutError", "UnicodeDecodeError"}}
    \cup {[kind |-> "HTTPError", code |-> c] : c \in {401, 500}}

\* AIManager._ollama_sorgula from urlopen on; HTTPError is a URLError.
ollama_sorgula(o) ==
    CASE o.kind = "reply" ->
            Returns(IF o.content = Missing THEN Str(<<"Yanit yok">>) ELSE o.content)
      [] o.kind \in {"URLError", "HTTPError"} -> Returns(Str(<<"Ollama calismiyor">>))
      [] o.kind = "JSONDecodeError" -> Returns(Str(<<"AI yaniti islenemedi (gecersiz JSON)">>))
      [] OTHER -> Raises(o.kind)

\* AIManager._openai_sorgula from urlopen on.
openai_sorgula(o) ==
    CASE o.kind = "reply" ->
            IF o.content = Missing THEN Raises("KeyError") ELSE Returns(o.content)
      [] o.kind = "HTTPError" -> Returns(Str(<<"OpenAI API hatasi", o.code>>))
      [] o.kind = "JSONDecodeError" -> Returns(Str(<<"AI yaniti islenemedi">>))
      [] OTHER -> Raises(o.kind)

\* A sorgula without its try block.
sorgula_except_None(r) == r

\* AIManager.sorgula: except Exception as e: log; return f"AI hatasi: {e}"
sorgula_except(r) == IF r.raised THEN Returns(Str(<<"AI hatasi", r.val.name>>)) ELSE r

Providers == {"ollama", "openai", "gemini"}

\* AIManager.sorgula up to the request: an unknown provider and a missing
\* OpenAI key end the query with a text, otherwise the messages are sent.
SorgulaSend ==
    /\ guard.pc = "in"
    /\ guard' =
         IF guard.provider \notin {"ollama", "openai"}
         THEN [guard EXCEPT !.pc = "out",
                 !.out = sorgula_except(Returns(Str(<<"Bilinmeyen AI saglayici", guard.provider>>)))]
         ELSE IF guard.provider = "openai" /\ ~guard.key
         THEN [guard EXCEPT !.pc = "out",
                 !.out = sorgula_except(Returns(Str(<<"OpenAI API key yok!">>)))]
         ELSE [guard EXCEPT !.pc = "sent",
                 !.messages = BuildMessages(guard.prompt, guard.system_prompt, guard.context)]
    /\ UNCHANGED <<storeVars, sandbox>>

\* urlopen ends, one way or another, and sorgula returns.
SorgulaReply ==
    /\ guard.pc = "sent"
    /\ \E o \in HttpOutcomes :
          guard' = [guard EXCEPT !.pc = "out", !.http = o,
                      !.out = sorgula_except(IF guard.provider = "ollama"
                                             THEN ollama_sorgula(o) ELSE openai_sorgula(o))]
    /\ UNCHANGED <<storeVars, sandbox>>

AIInit ==
    /\ StoreInit
    /\ sandbox = Off
    /\ guard \in {[pc |-> "in", provider |-> x, key |-> k, prompt |-> <<0>>,
                   system_prompt |-> sp, context |-> Conversation(n),
                   messages |-> <<>>, http |-> [kind |-> "none"], out |-> Returns(None)] :
                    x \in Providers, k \in BOOLEAN, sp \in {<<>>, <<"s">>}, n \in 0..MaxContext}

AINext == SorgulaSend \/ SorgulaReply

AISpec == AIInit /\ [][AINext]_vars

\* C29: the message list holds the system prompt first when one is given,
\* then the prior turns, the last ten of them at most and in their order,
\* then the new prompt, last, with the role user.
C29_MessageList ==
    guard.pc \in {"sent", "out"} /\ guard.messages # <<>> =>
        LET msgs == guard.messages
            ctx == guard.context
            k == IF Len(ctx) < 10 THEN Len(ctx) ELSE 10
            lead == IF guard.system_prompt # <<>> THEN 1 ELSE 0
        IN  /\ Len(msgs) = lead + k + 1
            /\ lead = 1 => msgs[1] = [role |-> "system", content |-> guard.system_prompt]
            /\ \A i \in 1..k :
                  LET turn == ctx[Len(ctx) - k + i]
                  IN  /\ msgs[lead + i].content = turn.icerik
                      /\ "rol" \in DOMAIN turn => msgs[lead + i].role = turn.rol
            /\ msgs[Len(msgs)] = [role |-> "user", content |-> guard.prompt]

\* A query with a system prompt and eleven prior turns has been sent.
C29_Witness ==
    /\ guard.pc = "sent"
    /\ guard.system_prompt = <<"s">>
    /\ Len(guard.context) = 11
    /\ Len(guard.messages) = 12

----------------------------------------------------------------------------
(* Failures of a command *)

\* The kinds of text powershell and opencode return.
ReturnedTexts == {"security", "timeout", "error", "exit_code", "output", "empty", "bad_path"}

\* C31: a command always ends with a returned text and never with an
\* exception: the text of the security violation for a command with a
\* forbidden character, the timeout text for a process that ran past its
\* limit, the error text for a process that could not be started.
C31_FailuresReturned ==
    sandbox.pc = "done" =>
        /\ sandbox.out.kind \in ReturnedTexts
        /\ ~Clean(sandbox.cmd) => sandbox.out.kind = "security"
        /\ sandbox.proc.kind = "timeout" => sandbox.out.kind = "timeout"
        /\ sandbox.proc.kind = "oserror" => sandbox.out.kind = "error"

\* The opencode CLI could not be started and the error text was returned.
C31_Witness ==
    /\ sandbox.pc = "done"
    /\ sandbox.kind = "opencode"
    /\ sandbox.proc.kind = "oserror"
    /\ LastSpawned.state = "failed"
    /\ sandbox.out = [kind |-> "error"]

----------------------------------------------------------------------------
(* Expired short-term rows *)

ExpiryRequests(t) ==
    {[op |-> "kisa_ekle", id |-> "k1", icerik |-> "m", later |-> c] : c \in ReadAgain(t)}
    \cup {[op |-> "kisa_getir", limit |-> n] : n \in Chosen(t, {10})}
    \cup {[op |-> "kisa_temizle"]}
    \cup {[op |-> "istatistik"]}

ExpiryNext ==
    \/ Tick
    \/ \E t \in Threads :
        \/ Call(t, ExpiryRequests(t))
        \/ Acquire(t, ExpiryRequests(t))
        \/ Exec(t)
        \/ CommitOk(t)
        \/ CommitFault(t)
        \/ Rollback(t)
        \/ Exit(t)

ExpirySpec == StoreOnlyInit /\ [][ExpiryNext]_vars

\* C32: a short-term row leaves the store only in the commit of a
\* kisa_temizle; the passing of time removes nothing. kisa_getir returns no
\* row whose expiry is not after the time of the query, and istatistik counts
\* every stored row, expired or not.
C32_ExpiryIsAFilter ==
    /\ [][\A r \in db.kisa_sureli :
            r \notin db'.kisa_sureli =>
                \E t \in Threads :
                    pc[t] = "commit" /\ req[t].op = "kisa_temizle" /\ pc'[t] = "exit"]_vars
    /\ [](\A t \in Threads :
            /\ Returned(t, "kisa_getir") =>
                  \A r \in Range(ret[t].val) : ExpiryOf(r) > req[t].now
            /\ Returned(t, "istatistik") => ret[t].val.kisa = Cardinality(db.kisa_sureli))

\* istatistik, called after the only stored row had expired, has counted it.
C32_Witness ==
    \E t \in Threads :
        /\ Returned(t, "istatistik")
        /\ ret[t].val.kisa = 1
        /\ \A r \in db.kisa_sureli : ExpiryOf(r) < req[t].now

----------------------------------------------------------------------------
(* What ogren hands to its caller *)

\* An ogren without its try block: the exception of get_cursor goes on.
ogren_return_NoTry(r) ==
    IF r.status = "ok" THEN [kind |-> "return", val |-> TRUE]
    ELSE [kind |-> "raise", val |-> FALSE]

\* try: with self.get_cursor() ...: return True
\* except Exception: self.logger.error(...); return False
ogren_return(r) ==
    IF r.status = "ok" THEN [kind |-> "return", val |-> TRUE]
    ELSE [kind |-> "return", val |-> FALSE]

\* C33: when the unit of work of ogren has ended, ogren returns a boolean and
\* raises nothing; after a failed write it returns False and the learned
\* table is the one it found, and it returns True only with its row committed.
C33_LearnReportsFailure ==
    \A t \in Threads :
        (pc[t] = "exit" /\ req[t].op = "ogren") =>
            LET out == ogren_return(ret[t])
            IN  /\ out.kind = "return"
                /\ ret[t].status = "error" =>
                      /\ out.val = FALSE
                      /\ db.ogrenilen = unit[t].base.ogrenilen
                      /\ txn.owner # t
                /\ out.val = TRUE =>
                      /\ txn.owner # t
                      /\ \E r \in db.ogrenilen :
                            r.soru = Normalized(req[t].soru) /\ r.yanit = req[t].yanit

\* The commit of an ogren has failed: it returns False over an unchanged table.
C33_Witness ==
    \E t \in Threads :
        /\ pc[t] = "exit" /\ req[t].op = "ogren"
        /\ ret[t].status = "error"
        /\ ogren_return(ret[t]) = [kind |-> "return", val |-> FALSE]
        /\ db.ogrenilen = unit[t].base.ogrenilen
        /\ unit[t].wrote.ogrenilen # db.ogrenilen

----------------------------------------------------------------------------
(* The command line of the assistant.  A line is the sequence of its words, *)
(* the pieces between single blanks; an empty word stands between two       *)
(* blanks in a row.  calistir trims the line and skips the empty one, so    *)
(* the first and the last word of a line are not empty.                     *)

MaxWords == 3

\* The words a line may begin with, and the words that may follow.
LineWords ==
    {"q", "Q", "?", "temiz", "stat", "config", "hafiza-durum", "hafiza-ekle", "hafiza-kisa",
     "hafiza-ara", "ogret", "ogrenilen", "ne", "oturum", "oturum-liste", "oturum-gecmis",
     "gorev", "ps", "PS", "oc", "opencode", "ai", "x"}

ArgWords == {"ogrendin", "ekle", "tamamla", "7", "-", "=", "x", ""}

Lines ==
    {l \in UNION {[1..n -> LineWords \cup ArgWords] : n \in 1..MaxWords} :
        /\ l[1] \in LineWords
        /\ \A i \in 2..Len(l) : l[i] \in ArgWords
        /\ l[Len(l)] # ""}

\* str.lower() on a word.
LowerWord(w) == CASE w = "Q" -> "q" [] w = "PS" -> "ps" [] OTHER -> w

\* cmd.lower()
LowerLine(l) == [i \in 1..Len(l) |-> LowerWord(l[i])]

\* cmd_lower.startswith(word + " ")
BeginsWith(l, word) == Len(l) >= 2 /\ LowerWord(l[1]) = word

\* The words after the first blank of the line.
AfterFirst(l) == SubSeq(l, 2, Len(l))

\* text.split(sep, 1) has two parts: sep between blanks occurs in the text.
Splits(text, sep) == \E i \in 2..(Len(text) - 1) : text[i] = sep

\* text.split(None, 1): the first word, and what follows it without the
\* blanks around.
SplitNone(text) ==
    LET w == SelectSeq(text, LAMBDA x : x # "")
    IN  [eylem |-> IF w = <<>> THEN "" ELSE Head(w),
         arg |-> IF Len(w) > 1 THEN Tail(w) ELSE <<>>]

\* str.isdigit() on the argument of a task command.
IsDigit(arg) == arg = <<"7">>

CallOf(to, op) == [to |-> to, op |-> op]

\* The branches of _komut_isle, in the order of its if statements.
Branches ==
    <<"quit", "help", "temiz", "stat", "config", "hafiza-durum", "hafiza-ekle", "hafiza-kisa",
      "hafiza-ara", "ogret", "ogrenilen", "oturum", "oturum-gec", "oturum-liste",
      "oturum-gecmis", "gorev", "ps", "oc", "ai">>

\* The condition of a branch.
BranchTaken(b, l) ==
    CASE b = "quit" -> LowerLine(l) \in {<<"q">>, <<"exit">>, <<"quit">>}
      [] b = "help" -> LowerLine(l) \in {<<"?">>, <<"yardim">>, <<"help">>}
      [] b = "ogrenilen" -> LowerLine(l) \in {<<"ogrenilen">>, <<"ne", "ogrendin">>}
      [] b \in {"temiz", "stat", "config", "hafiza-durum", "oturum", "oturum-liste",
                "oturum-gecmis"} -> LowerLine(l) = <<b>>
      \* a trimmed line that starts with "oturum " is longer than 7 characters
      [] b = "oturum-gec" -> BeginsWith(l, "oturum")
      [] b = "oc" -> BeginsWith(l, "oc") \/ BeginsWith(l, "opencode")
      [] OTHER -> BeginsWith(l, b)

\* The calls the body of a branch makes; the lines are within the length
\* limit, oturum is the active session ("" for none).
BranchBody(b, l, oturum) ==
    CASE b = "quit" -> <<CallOf("self", "kapat")>>
      [] b \in {"help", "temiz", "config"} -> <<>>
      [] b \in {"stat", "hafiza-durum"} -> <<CallOf("db", "istatistik")>>
      [] b = "hafiza-ekle" -> <<CallOf("db", "uzun_ekle")>>
      [] b = "hafiza-kisa" -> <<CallOf("db", "kisa_ekle")>>
      [] b = "hafiza-ara" -> <<CallOf("db", "uzun_ara")>>
      [] b = "ogret" ->
            IF Splits(AfterFirst(l), "-") \/ Splits(AfterFirst(l), "=")
            THEN <<CallOf("db", "ogren")>> ELSE <<>>
      [] b = "ogrenilen" -> <<CallOf("db", "ogrenilen_listele")>>
      [] b = "oturum" -> <<CallOf("db", "oturum_olustur")>>
      [] b = "oturum-gec" -> <<CallOf("db", "oturum_getir")>>
      [] b = "oturum-liste" -> <<CallOf("db", "oturum_listele")>>
      [] b = "oturum-gecmis" ->
            IF oturum # "" THEN <<CallOf("db", "oturum_mesajlari")>> ELSE <<>>
      [] b = "gorev" ->
            LET p == SplitNone(AfterFirst(l))
            IN  IF p.eylem = "ekle" /\ p.arg # <<>> THEN <<CallOf("db", "gorev_ekle")>>
                ELSE IF p.eylem \in {"liste", "list"} THEN <<CallOf("db", "gorev_listele")>>
                ELSE IF p.eylem = "tamamla" /\ IsDigit(p.arg)
                     THEN <<CallOf("db", "gorev_tamamla")>>
                ELSE IF p.eylem = "sil" /\ IsDigit(p.arg) THEN <<CallOf("db", "gorev_sil")>>
                ELSE <<>>
      [] b = "ps" -> <<CallOf("cmd", "powershell")>>
      [] b = "oc" -> <<CallOf("cmd", "opencode")>>
      [] b = "ai" -> <<CallOf("self", "ai_cevapla")>>

\* The last two statements of _komut_isle: the line is a question.
Fallthrough == [branch |-> "soru", calls |-> <<CallOf("self", "ai_cevapla")>>]

RECURSIVE komut_isle(_, _, _)
\* A _komut_isle whose branches do not end in return.
komut_isle_NoReturn(i, l, oturum) ==
    IF i > Len(Branches) THEN <<Fallthrough>>
    ELSE IF BranchTaken(Branches[i], l)
    THEN <<[branch |-> Branches[i], calls |-> BranchBody(Branches[i], l, oturum)]>>
         \o komut_isle(i + 1, l, oturum)
    ELSE komut_isle(i + 1, l, oturum)

\* _komut_isle from its i-th if statement on: the bodies that run on line l.
komut_isle(i, l, oturum) ==
    IF i > Len(Branches) THEN <<Fallthrough>>
    ELSE IF BranchTaken(Branches[i], l)
    THEN <<[branch |-> Branches[i], calls |-> BranchBody(Branches[i], l, oturum)]>>
    ELSE komut_isle(i + 1, l, oturum)

\* _komut_isle on one line read by calistir.
KomutIsle ==
    /\ guard.pc = "in"
    /\ guard' = [pc |-> "out", cmd |-> guard.cmd, oturum |-> guard.oturum,
                 ran |-> komut_isle(1, guard.cmd, guard.oturum)]
    /\ UNCHANGED <<storeVars, sandbox>>

DispatchInit ==
    /\ StoreInit
    /\ sandbox = Off
    /\ guard \in {[pc |-> "in", cmd |-> l, oturum |-> o] : l \in Lines, o \in {"", "s1"}}

DispatchSpec == DispatchInit /\ [][KomutIsle]_vars

\* The fixed prefixes of the protocol and the commands typed alone.
FixedPrefixes ==
    {"hafiza-ekle", "hafiza-kisa", "hafiza-ara", "ogret", "oturum", "gorev", "ps", "oc",
     "opencode", "ai"}

ExactCommands ==
    {<<"q">>, <<"exit">>, <<"quit">>, <<"?">>, <<"yardim">>, <<"help">>, <<"temiz">>,
     <<"stat">>, <<"config">>, <<"hafiza-durum">>, <<"ogrenilen">>, <<"ne", "ogrendin">>,
     <<"oturum">>, <<"oturum-liste">>, <<"oturum-gecmis">>}

StoreBranches ==
    {"stat", "hafiza-durum", "hafiza-ekle", "hafiza-kisa", "hafiza-ara", "ogret", "ogrenilen",
     "oturum", "oturum-gec", "oturum-liste", "oturum-gecmis", "gorev"}

\* The branch that owns a prefix.
OwnerOf(prefix) ==
    CASE prefix = "oturum" -> "oturum-gec" [] prefix = "opencode" -> "oc" [] OTHER -> prefix

\* C34: exactly one body runs on a line; a line that begins with a fixed
\* prefix runs the body of that prefix; a line that begins with none and is
\* no command typed alone goes to ai_cevapla as the question; the bodies of
\* the store commands make no call but to the store.
C34_OneHandler ==
    guard.pc = "out" =>
        LET l == guard.cmd
            first == LowerWord(l[1])
        IN  /\ Len(guard.ran) = 1
            /\ (Len(l) >= 2 /\ first \in FixedPrefixes) => guard.ran[1].branch = OwnerOf(first)
            /\ (~(Len(l) >= 2 /\ first \in FixedPrefixes) /\ LowerLine(l) \notin ExactCommands)
                  => guard.ran[1] = Fallthrough
            /\ guard.ran[1].branch \in StoreBranches =>
                  \A i \in 1..Len(guard.ran[1].calls) : guard.ran[1].calls[i].to = "db"

\* The word gorev alone begins with no fixed prefix: it went to ai_cevapla.
C34_Witness ==
    /\ guard.pc = "out"
    /\ guard.cmd = <<"gorev">>
    /\ guard.ran = <<Fallthrough>>

----------------------------------------------------------------------------
(* Completing a task again, later *)

CompleteRequests(t) ==
    {[op |-> "gorev_ekle", baslik |-> b, aciklama |-> "", oncelik |-> "orta"] :
        b \in (IF View(t).seq.gorevler < MaxTasks THEN Basliklar ELSE {})}
    \cup {[op |-> "gorev_tamamla", id |-> i] : i \in Chosen(t, 1..MaxTasks)}

CompleteNext ==
    \/ Tick
    \/ \E t \in Threads :
        \/ Call(t, CompleteRequests(t))
        \/ Acquire(t, CompleteRequests(t))
        \/ Exec(t)
        \/ CommitOk(t)
        \/ CommitFault(t)
        \/ Rollback(t)
        \/ Exit(t)

CompleteSpec == StoreOnlyInit /\ [][CompleteNext]_vars

\* C35: gorev_tamamla on a task that is tamamlandi already leaves the store,
\* tamamlanma included, as it found it.
C35_CompleteIdempotent ==
    \A t \in Threads :
        (/\ Returned(t, "gorev_tamamla")
         /\ \E r \in unit[t].base.gorevler : r.id = req[t].id /\ r.durum = "tamamlandi")
            => db = unit[t].base

----------------------------------------------------------------------------
(* The lock while a generator of uzun_getir is suspended *)

\* The thread runs statements of a store operation: it is between the grant
\* of the lock and the end of the with block, and not suspended at a yield.
Executing(t) == pc[t] \in {"exec", "commit", "rollback", "exit"}

\* C36: whenever no thread is executing statements of a store operation, the
\* lock is free.
C36_IdleLockFree ==
    (\A t \in Threads : ~Executing(t)) => lockOwner = NoThread

----------------------------------------------------------------------------
(* One exchange of ai_cevapla while the route /oturum/olustur is served.    *)
(* The server answers each request on a thread of its own; self.oturum is   *)
(* an attribute both threads read and write without a lock. Each store call *)
(* is one step here: the lock of get_cursor makes it atomic.                *)

NoSession == ""

\* The statements of ai_cevapla keep: ctx, the session whose history was read;
\* context, the rows read; messages, the list sent; saved, the sessions the
\* two messages of the exchange went to.
ExchangeIdle ==
    [pc |-> "idle", oturum |-> NoSession, ctx |-> NoSession, context |-> <<>>,
     messages |-> <<>>, saved |-> <<>>]

\* limit=5 in ai_cevapla
HistoryLimit == 5

\* The route /ai has a message: ai_cevapla begins (no learned answer matches).
AiRoute ==
    /\ guard.pc = "idle"
    /\ db.seq.mesajlar <= MaxMessages
    /\ guard' = [ExchangeIdle EXCEPT !.pc = "context_if", !.oturum = guard.oturum]
    /\ UNCHANGED <<storeVars, sandbox>>

\* if self.oturum:
ContextIf ==
    /\ guard.pc = "context_if"
    /\ guard' = [guard EXCEPT !.pc = IF guard.oturum # NoSession THEN "context" ELSE "ask"]
    /\ UNCHANGED <<storeVars, sandbox>>

\* context = self.db.oturum_mesajlari(self.oturum, limit=5)
ContextRead ==
    /\ guard.pc = "context"
    /\ \E o \in oturum_mesajlari(db, guard.oturum, HistoryLimit) :
          guard' = [guard EXCEPT !.pc = "ask", !.ctx = guard.oturum, !.context = o.val]
    /\ UNCHANGED <<storeVars, sandbox>>

\* yanit = self.ai.sorgula(soru, system_prompt, context); if self.oturum:
SaveIf ==
    /\ guard.pc = "ask"
    /\ guard' = [guard EXCEPT
                   !.pc = IF guard.oturum # NoSession THEN "save_user" ELSE "return",
                   !.messages = BuildMessages(<<"q">>, <<"s">>, guard.context)]
    /\ UNCHANGED <<storeVars, sandbox>>

\* self.db.oturum_mesaj_ekle(self.oturum, "user", soru[:500])
SaveUser ==
    /\ guard.pc = "save_user"
    /\ \E o \in oturum_mesaj_ekle(db, guard.oturum, "user", <<"q">>, clock) :
          /\ o.ok
          /\ db' = o.d
    /\ guard' = [guard EXCEPT !.pc = "save_assistant", !.saved = Append(@, guard.oturum)]
    /\ UNCHANGED <<txn, lockOwner, lockCount, conns, pc, req, stmt, ret, unit, hist, faults,
                   clock, sandbox>>

\* self.db.oturum_mesaj_ekle(self.oturum, "assistant", yanit[:500])
SaveAssistant ==
    /\ guard.pc = "save_assistant"
    /\ \E o \in oturum_mesaj_ekle(db, guard.oturum, "assistant", <<"a">>, clock) :
          /\ o.ok
          /\ db' = o.d
    /\ guard' = [guard EXCEPT !.pc = "return", !.saved = Append(@, guard.oturum)]
    /\ UNCHANGED <<txn, lockOwner, lockCount, conns, pc, req, stmt, ret, unit, hist, faults,
                   clock, sandbox>>

\* return yanit
AiReturn ==
    /\ guard.pc = "return"
    /\ guard' = [guard EXCEPT !.pc = "idle"]
    /\ UNCHANGED <<storeVars, sandbox>>

\* The route /oturum/olustur on another thread:
\* o = asistan.db.oturum_olustur(); asistan.oturum = o['id']
OturumOlusturRoute ==
    /\ \E id \in SessionIds :
          /\ id \notin Ids(db.oturumlar)
          /\ \E o \in oturum_olustur(db, id, clock) :
                /\ o.ok
                /\ db' = o.d
                /\ guard' = [guard EXCEPT !.oturum = o.val.id]
    /\ UNCHANGED <<txn, lockOwner, lockCount, conns, pc, req, stmt, ret, unit, hist, faults,
                   clock, sandbox>>

ExchangeInit == StoreInit /\ sandbox = Off /\ guard = ExchangeIdle

ExchangeNext ==
    \/ AiRoute
    \/ ContextIf
    \/ ContextRead
    \/ SaveIf
    \/ SaveUser
    \/ SaveAssistant
    \/ AiReturn
    \/ OturumOlusturRoute
    \/ Tick

ExchangeSpec == ExchangeInit /\ [][ExchangeNext]_vars

\* C37: the user message and the assistant message of one exchange are
\* appended to one session, the one whose history was read as the context.
C37_OneSessionPerExchange ==
    guard.pc = "return" =>
        \A i \in 1..Len(guard.saved) : guard.saved[i] = guard.ctx

----------------------------------------------------------------------------
(* A read and a prune at one instant *)

\* C38: at the time the clock shows, every stored short-term row is returned
\* by kisa_getir (asked for as many rows as are stored) or deleted by
\* kisa_temizle.
C38_ReadOrPruned ==
    \A r \in db.kisa_sureli :
        \/ \A o \in kisa_getir(db, Cardinality(db.kisa_sureli), clock) : r \in Range(o.val)
        \/ \A o \in kisa_temizle(db, clock) : r \notin o.d.kisa_sureli

\* C39: the turns between the system prompt and the new prompt are the most
\* recent messages of the session, the oldest of them first.
C39_OldestFirst ==
    (guard.pc = "save_user" /\ guard.ctx # NoSession) =>
        LET mid == SubSeq(guard.messages, 2, Len(guard.messages) - 1)
            rows == {r \in db.mesajlar : r.oturum_id = guard.ctx}
        IN  \E s \in SortedDesc(rows, "zaman") :
                LET recent == Take(s, HistoryLimit)
                IN  mid = [i \in 1..Len(recent) |-> TurnMessage(recent[Len(recent) + 1 - i])]

----------------------------------------------------------------------------
(* Teaching an answer and asking for it *)

\* LIMIT 5 in ogrenilen_ara
LearnedLimit == 5

\* SELECT * FROM ogrenilen WHERE soru LIKE '%' || sorgu.lower() || '%'
\* ORDER BY olusturma DESC LIMIT 5
ogrenilen_ara(d, sorgu) ==
    LET pattern == <<"%">> \o Lower(sorgu) \o <<"%">>
        rows == {r \in d.ogrenilen : Like(pattern, r.soru, FALSE)}
    IN  {Done(d, Take(s, LearnedLimit)) : s \in SortedDescText(rows, "olusturma")}

\* What ai_cevapla does with the rows ogrenilen_ara returned: the answer of
\* the first one, or the question goes on to the provider.
ai_cevapla_learned(rows) ==
    IF rows # <<>> THEN [from |-> "ogrenilen", yanit |-> rows[1].yanit]
    ELSE [from |-> "provider", yanit |-> ""]

NothingAsked == [pc |-> "idle"]

\* ogren(q, a) returns True.
Ogret(q, a) ==
    /\ guard.pc \in {"idle", "answered"}
    /\ db.seq.ogrenilen < MaxLearned
    /\ \E o \in ogren(db, q, a, clock) :
          /\ o.ok
          /\ db' = o.d
          /\ guard' = [pc |-> "taught", soru |-> q, yanit |-> a, ok |-> ogren_return([status |-> "ok"]).val]
    /\ UNCHANGED <<txn, lockOwner, lockCount, conns, pc, req, stmt, ret, unit, hist, faults,
                   clock, sandbox>>

\* ogrenilen = self.db.ogrenilen_ara(soru), with the question just taught
OgrenilenAra ==
    /\ guard.pc = "taught"
    /\ \E o \in ogrenilen_ara(db, guard.soru) :
          guard' = [pc |-> "found", soru |-> guard.soru, yanit |-> guard.yanit, ok |-> guard.ok,
                    rows |-> o.val]
    /\ UNCHANGED <<storeVars, sandbox>>

\* The rest of ai_cevapla.
AiCevapla ==
    /\ guard.pc = "found"
    /\ guard' = [pc |-> "answered", soru |-> guard.soru, yanit |-> guard.yanit, ok |-> guard.ok,
                 rows |-> guard.rows, out |-> ai_cevapla_learned(guard.rows)]
    /\ UNCHANGED <<storeVars, sandbox>>

RoundTripInit == StoreInit /\ sandbox = Off /\ guard = NothingAsked

RoundTripNext ==
    \/ \E q \in Sorular, a \in Yanitlar : Ogret(q, a)
    \/ OgrenilenAra
    \/ AiCevapla
    \/ Tick

RoundTripSpec == RoundTripInit /\ [][RoundTripNext]_vars

\* C40: after ogren(q, a) has returned True, ogrenilen_ara(q) returns a row
\* with the answer a, and ai_cevapla(q) answers a from the learned table.
C40_LearnLookup ==
    /\ (guard.pc \in {"found", "answered"} /\ guard.ok) =>
          \E i \in 1..Len(guard.rows) : guard.rows[i].yanit = guard.yanit
    /\ (guard.pc = "answered" /\ guard.ok) =>
          guard.out = [from |-> "ogrenilen", yanit |-> guard.yanit]

====
